---- MODULE Spec2Model ----
(***************************************************************************)
(* A model of the redis package: the RESP codec, the command layer, the    *)
(* keyspace engine with lazy and active expiration, the snapshot writer    *)
(* and loader, and the acceptor / reader / consumer pipeline.              *)
(*                                                                         *)
(* Strings and byte slices are sequences of one-character strings, so that *)
(* framing, splitting and number formatting are computed, not assumed.     *)
(* Instants are integers counting milliseconds.                            *)
(***************************************************************************)
EXTENDS Integers, Sequences, FiniteSets, TLC

(***************************************************************************)
(* Generic helpers: Go maps as functions with a finite domain.             *)
(***************************************************************************)
EmptyMap == << >>

MapPut(m, k, v) == [x \in (DOMAIN m) \cup {k} |-> IF x = k THEN v ELSE m[x]]

MapDelete(m, k) == [x \in (DOMAIN m) \ {k} |-> m[x]]

Has(m, k) == k \in DOMAIN m

RECURSIVE SumSeq(_)
SumSeq(s) == IF s = << >> THEN 0 ELSE Head(s) + SumSeq(Tail(s))

RECURSIVE Concat(_)
Concat(ss) == IF ss = << >> THEN << >> ELSE Head(ss) \o Concat(Tail(ss))

RECURSIVE SeqOfSet(_)
SeqOfSet(S) ==
    IF S = {} THEN << >>
    ELSE LET x == CHOOSE y \in S : TRUE IN <<x>> \o SeqOfSet(S \ {x})

SeqsUpTo(S, n) == UNION {[1..m -> S] : m \in 0..n}

(***************************************************************************)
(* Characters and numbers (strconv, fmt).                                  *)
(***************************************************************************)
CR == "\r"
LF == "\n"
CRLF == <<CR, LF>>

DigitChars == <<"0", "1", "2", "3", "4", "5", "6", "7", "8", "9">>

IsDigit(c) == \E i \in 1..10 : DigitChars[i] = c

DigitVal(c) == (CHOOSE i \in 1..10 : DigitChars[i] = c) - 1

RECURSIVE FormatNat(_)
FormatNat(n) ==
    IF n < 10 THEN <<DigitChars[n + 1]>>
    ELSE FormatNat(n \div 10) \o <<DigitChars[(n % 10) + 1]>>

\* fmt.Sprintf("%d", n) and fmt.Sprint(n) of an integer
FormatInt(n) == IF n < 0 THEN <<"-">> \o FormatNat(0 - n) ELSE FormatNat(n)

RECURSIVE DigitsValue(_, _)
DigitsValue(s, base) ==
    IF s = << >> THEN 0
    ELSE DigitsValue(SubSeq(s, 1, Len(s) - 1), base) * base + DigitVal(s[Len(s)])

AllDigits(s) == s # << >> /\ \A i \in 1..Len(s) : IsDigit(s[i])

\* the result of a parse: ok = FALSE stands for a non-nil error
ParseErr == [ok |-> FALSE, val |-> 0]

ParseOk(v) == [ok |-> TRUE, val |-> v]

\* strconv.ParseUint(s, 10, 0): digits only, no sign
ParseUint(s) == IF AllDigits(s) THEN ParseOk(DigitsValue(s, 10)) ELSE ParseErr

\* strconv.ParseInt(s, 10, 0): an optional sign, then digits
ParseInt(s) ==
    IF s = << >> THEN ParseErr
    ELSE LET signed == s[1] \in {"+", "-"}
             body == IF signed THEN Tail(s) ELSE s
         IN  IF ~AllDigits(body) THEN ParseErr
             ELSE ParseOk(IF s[1] = "-" THEN 0 - DigitsValue(body, 10)
                          ELSE DigitsValue(body, 10))

ZRangeBitSize == 10

RECURSIVE Pow2(_)
Pow2(n) == IF n = 0 THEN 1 ELSE 2 * Pow2(n - 1)

\* strconv.ParseInt(s, 0, 10): base taken from the prefix (a leading 0 reads
\* the rest as octal), the value must fit in 10 bits
ParseIntBase0(s) ==
    IF s = << >> THEN ParseErr
    ELSE LET signed == s[1] \in {"+", "-"}
             body == IF signed THEN Tail(s) ELSE s
             octal == Len(body) > 1 /\ body[1] = "0"
             digits == IF octal THEN Tail(body) ELSE body
             base == IF octal THEN 8 ELSE 10
             mag == DigitsValue(digits, base)
             v == IF s[1] = "-" THEN 0 - mag ELSE mag
         IN  IF ~AllDigits(digits) THEN ParseErr
             ELSE IF octal /\ \E i \in 1..Len(digits) : DigitVal(digits[i]) > 7 THEN ParseErr
             ELSE IF v < 0 - Pow2(ZRangeBitSize - 1) \/ v > Pow2(ZRangeBitSize - 1) - 1
                  THEN ParseErr
             ELSE ParseOk(v)

\* strconv.ParseFloat(s, 64) on the strings of the model: an optional sign and
\* decimal digits (no fraction, exponent, "inf" or "nan" occurs in the alphabet)
ParseFloat(s) == ParseInt(s)

(***************************************************************************)
(* The Go int of IncrementBy with its width of 64 bits (strconv.ParseInt   *)
(* with bitSize 0 on a 64-bit build).  A value is its sign and the decimal *)
(* digits of its magnitude without leading zeros, since the values at the  *)
(* ends of the range do not fit the integers of the model checker.         *)
(***************************************************************************)
MaxInt64Digits ==
    <<"9", "2", "2", "3", "3", "7", "2", "0", "3", "6", "8", "5", "4", "7", "7", "5",
      "8", "0", "7">>

\* the magnitude of the smallest value, 2^63
MinInt64Digits ==
    <<"9", "2", "2", "3", "3", "7", "2", "0", "3", "6", "8", "5", "4", "7", "7", "5",
      "8", "0", "8">>

Int64(neg, mag) == [neg |-> neg /\ mag # <<"0">>, mag |-> mag]

RECURSIVE StripZeros(_)
StripZeros(d) == IF Len(d) > 1 /\ d[1] = "0" THEN StripZeros(Tail(d)) ELSE d

\* a < b for two magnitudes without leading zeros
RECURSIVE MagLess(_, _)
MagLess(a, b) ==
    IF Len(a) # Len(b) THEN Len(a) < Len(b)
    ELSE IF a = << >> THEN FALSE
    ELSE IF a[1] # b[1] THEN DigitVal(a[1]) < DigitVal(b[1])
    ELSE MagLess(Tail(a), Tail(b))

\* the magnitude plus one
RECURSIVE MagSucc(_)
MagSucc(d) ==
    IF d = << >> THEN <<"1">>
    ELSE IF d[Len(d)] = "9" THEN MagSucc(SubSeq(d, 1, Len(d) - 1)) \o <<"0">>
    ELSE SubSeq(d, 1, Len(d) - 1) \o <<DigitChars[DigitVal(d[Len(d)]) + 2]>>

\* the magnitude minus one, for a magnitude that is not zero
RECURSIVE MagBorrow(_)
MagBorrow(d) ==
    IF d[Len(d)] = "0" THEN MagBorrow(SubSeq(d, 1, Len(d) - 1)) \o <<"9">>
    ELSE SubSeq(d, 1, Len(d) - 1) \o <<DigitChars[DigitVal(d[Len(d)])]>>

MagPred(d) == StripZeros(MagBorrow(d))

\* strconv.ParseInt(s, 10, 0): an optional sign, then digits; a value out of
\* the range of int is an error
ParseInt64(s) ==
    IF s = << >> THEN [ok |-> FALSE, val |-> Int64(FALSE, <<"0">>)]
    ELSE LET signed == s[1] \in {"+", "-"}
             body == IF signed THEN Tail(s) ELSE s
             mag == StripZeros(body)
             inRange == IF s[1] = "-" THEN ~MagLess(MinInt64Digits, mag)
                        ELSE ~MagLess(MaxInt64Digits, mag)
         IN  IF ~AllDigits(body) \/ ~inRange
             THEN [ok |-> FALSE, val |-> Int64(FALSE, <<"0">>)]
             ELSE [ok |-> TRUE, val |-> Int64(s[1] = "-", mag)]

\* v + 1 and v - 1 of Go: the sum wraps around at the ends of the range
Int64Inc(v) ==
    IF v.neg THEN Int64(TRUE, MagPred(v.mag))
    ELSE IF v.mag = MaxInt64Digits THEN Int64(TRUE, MinInt64Digits)
    ELSE Int64(FALSE, MagSucc(v.mag))

Int64Dec(v) ==
    IF ~v.neg /\ v.mag # <<"0">> THEN Int64(FALSE, MagPred(v.mag))
    ELSE IF v.neg /\ v.mag = MinInt64Digits THEN Int64(FALSE, MaxInt64Digits)
    ELSE Int64(TRUE, MagSucc(v.mag))

\* int(intVal) + value for the values IncrementBy is called with, 1 and -1
Int64Add(v, value) == IF value = 1 THEN Int64Inc(v) ELSE Int64Dec(v)

\* fmt.Sprintf("%d", v)
FormatInt64(v) == (IF v.neg THEN <<"-">> ELSE << >>) \o v.mag

UpperChars == <<"A", "B", "C", "D", "E", "F", "G", "H", "I", "J", "K", "L", "M",
                "N", "O", "P", "Q", "R", "S", "T", "U", "V", "W", "X", "Y", "Z">>

LowerChars == <<"a", "b", "c", "d", "e", "f", "g", "h", "i", "j", "k", "l", "m",
                "n", "o", "p", "q", "r", "s", "t", "u", "v", "w", "x", "y", "z">>

LowerChar(c) ==
    IF \E i \in 1..26 : UpperChars[i] = c
    THEN LowerChars[CHOOSE i \in 1..26 : UpperChars[i] = c]
    ELSE c

UpperChar(c) ==
    IF \E i \in 1..26 : LowerChars[i] = c
    THEN UpperChars[CHOOSE i \in 1..26 : LowerChars[i] = c]
    ELSE c

\* strings.ToLower, strings.ToUpper
ToLower(s) == [i \in 1..Len(s) |-> LowerChar(s[i])]

ToUpper(s) == [i \in 1..Len(s) |-> UpperChar(s[i])]

\* strings.Index(s, sep) as a 1-based position, 0 when sep does not occur
IndexOf(s, sep) ==
    LET hits == {i \in 1..(Len(s) - Len(sep) + 1) : SubSeq(s, i, i + Len(sep) - 1) = sep}
    IN  IF hits = {} THEN 0 ELSE CHOOSE i \in hits : \A j \in hits : i <= j

\* strings.Split(s, sep): the pieces between the occurrences of sep
RECURSIVE Split(_, _)
Split(s, sep) ==
    LET i == IndexOf(s, sep)
    IN  IF i = 0 THEN <<s>>
        ELSE <<SubSeq(s, 1, i - 1)>> \o Split(SubSeq(s, i + Len(sep), Len(s)), sep)

(***************************************************************************)
(* RESP serializers                                                        *)
(***************************************************************************)
NIL_BULK_STRING == <<"$", "-", "1", CR, LF>>

OK_SIMPLE_STRING == <<"+", "O", "K", CR, LF>>

SerializeBulkString(data) == <<"$">> \o FormatInt(Len(data)) \o CRLF \o data \o CRLF

SerializeSimpleString(data) == <<"+">> \o data \o CRLF

SerializeSimpleError(data) == <<"-">> \o data \o CRLF

SerializeInteger(n) == <<":">> \o FormatInt(n) \o CRLF

SerializeArray(data) ==
    <<"*">> \o FormatInt(Len(data)) \o CRLF
        \o Concat([i \in 1..Len(data) |-> SerializeBulkString(data[i])])

(***************************************************************************)
(* RESP decoding.  A decode result is ok (val: the decoded strings, or an  *)
(* absent slice for the nil result), err (a Go error) or panic (an index   *)
(* or slice bound out of range, which ends the process).                   *)
(***************************************************************************)
\* a pointer or slice that may be nil: << >> is nil, <<x>> holds x
Nil == << >>

Some(x) == <<x>>

DecOk(strs) == [kind |-> "ok", val |-> Some(strs), err |-> << >>]

DecNil == [kind |-> "ok", val |-> Nil, err |-> << >>]

DecErr(text) == [kind |-> "err", val |-> Nil, err |-> text]

DecPanic == [kind |-> "panic", val |-> Nil, err |-> << >>]

\* 0-based index of the first '\r' of raw, 0 when there is none
getFirstCRIndex(raw) ==
    LET i == IndexOf(raw, <<CR>>) IN IF i = 0 THEN 0 ELSE i - 1

\* raw[i] for a 0-based i
At(raw, i) == raw[i + 1]

InRange(raw, i) == i >= 0 /\ i < Len(raw)

\* raw[lo:hi] for 0-based lo, hi
Slice(raw, lo, hi) == SubSeq(raw, lo + 1, hi)

decodeBulkString(raw) ==
    LET cr == IndexOf(raw, <<CR>>)
        rawString == IF cr = 0 THEN raw ELSE SubSeq(raw, 1, cr - 1)
        dataStartIndex == IF cr = 0 THEN 0 ELSE (cr - 1) + 2
        parsed == ParseInt(rawString)
        length == parsed.val
    IN  IF rawString = << >> THEN DecPanic
        ELSE IF rawString[1] = "-" /\ rawString # <<"-", "1">>
             THEN DecErr(<<"invalid null string">>)
        ELSE IF ~parsed.ok
             THEN DecErr(<<"strconv.ParseInt: parsing ">> \o rawString \o <<": invalid syntax">>)
        ELSE IF length = 0 - 1 THEN DecNil
        ELSE IF length = 0 THEN DecOk(<< << >> >>)
        ELSE IF ~InRange(raw, Len(raw) - 2) \/ ~InRange(raw, dataStartIndex + length)
             THEN DecPanic
        ELSE IF At(raw, Len(raw) - 2) # At(raw, dataStartIndex + length)
             THEN DecErr(<<"data does not match length">>)
        ELSE IF dataStartIndex > Len(raw) - 2 THEN DecPanic
        ELSE DecOk(<<Slice(raw, dataStartIndex, Len(raw) - 2)>>)

\* the loop of decodeArray over split[i], split[i+1], from the 1-based position i
RECURSIVE decodeArrayLoop(_, _, _)
decodeArrayLoop(split, i, parsed) ==
    IF i > Len(split) THEN DecOk(parsed)
    ELSE IF split[i] = << >> THEN DecPanic
    ELSE LET rawLength == Tail(split[i])
             length == ParseInt(rawLength)
         IN  IF ~length.ok
             THEN DecErr(<<"strconv.ParseInt: parsing ">> \o rawLength \o <<": invalid syntax">>)
             ELSE IF i + 1 > Len(split) THEN DecPanic
             ELSE IF Len(split[i + 1]) # length.val
                  THEN DecErr(<<"length and data mismatch. received length: ">>
                              \o FormatInt(length.val) \o <<". data length: ">>
                              \o FormatInt(Len(split[i + 1])))
             ELSE decodeArrayLoop(split, i + 2, Append(parsed, split[i + 1]))

decodeArray(raw) ==
    LET crIndex == getFirstCRIndex(raw)
        numOfElements == ParseUint(Slice(raw, 0, crIndex))
    IN  IF ~numOfElements.ok
        THEN DecErr(<<"failed to parse number of elements to unsigned int">>)
        ELSE IF numOfElements.val = 0 THEN DecOk(<< >>)
        ELSE IF crIndex + 2 > Len(raw) THEN DecPanic
        ELSE LET all == Split(Slice(raw, crIndex + 2, Len(raw)), CRLF)
                 split == IF all[Len(all)] = << >> THEN SubSeq(all, 1, Len(all) - 1) ELSE all
             IN  decodeArrayLoop(split, 1, << >>)

DecodeMessage(rawMessage) ==
    IF Len(rawMessage) = 0 THEN DecErr(<<"Got an empty message">>)
    ELSE IF rawMessage[1] = "$" THEN decodeBulkString(Tail(rawMessage))
    ELSE IF rawMessage[1] = "*" THEN decodeArray(Tail(rawMessage))
    ELSE DecErr(<<"invalid first byte">>)

(***************************************************************************)
(* The list (list.go) is kept as the sequence of its values, head first.   *)
(***************************************************************************)
NewList == << >>

AppendToTail(l, value) == Append(l, value)

AppendToHead(l, value) == <<value>> \o l

RECURSIVE AppendSliceToTail(_, _)
AppendSliceToTail(l, values) ==
    IF values = << >> THEN l
    ELSE AppendSliceToTail(AppendToTail(l, Head(values)), Tail(values))

RECURSIVE AppendSliceToHead(_, _)
AppendSliceToHead(l, values) ==
    IF values = << >> THEN l
    ELSE AppendSliceToHead(AppendToHead(l, Head(values)), Tail(values))

NewListFromSlice(values) == AppendSliceToTail(NewList, values)

ToSlice(l) == l

(***************************************************************************)
(* The ordered tree (rbtree.go) as the keyspace sees it: its nodes in key  *)
(* order, each with the sorted bucket of the values put under that key,    *)
(* and its size field.                                                     *)
(***************************************************************************)
Ascii == <<LF, CR, "$", "'", "*", "+", "-", "0", "1", "2", "3", "4", "5", "6", "7",
           "8", "9", ":", "A", "B", "C", "D", "E", "F", "G", "H", "I", "J", "K", "L",
           "M", "N", "O", "P", "Q", "R", "S", "T", "U", "V", "W", "X", "Y", "Z", "a",
           "b", "c", "d", "e", "f", "g", "h", "i", "j", "k", "l", "m", "n", "o", "p",
           "q", "r", "s", "t", "u", "v", "w", "x", "y", "z">>

CharCode(c) == CHOOSE i \in 1..Len(Ascii) : Ascii[i] = c

\* a < b for Go strings: bytewise, a proper prefix is smaller
RECURSIVE StrLess(_, _)
StrLess(a, b) ==
    IF b = << >> THEN FALSE
    ELSE IF a = << >> THEN TRUE
    ELSE IF Head(a) # Head(b) THEN CharCode(Head(a)) < CharCode(Head(b))
    ELSE StrLess(Tail(a), Tail(b))

\* sort.Sort of a bucket, by insertion
RECURSIVE SortStrs(_)
SortStrs(s) ==
    IF s = << >> THEN << >>
    ELSE LET rest == SortStrs(SubSeq(s, 1, Len(s) - 1))
             x == s[Len(s)]
             pos == Cardinality({i \in 1..Len(rest) : ~StrLess(x, rest[i])})
         IN  SubSeq(rest, 1, pos) \o <<x>> \o SubSeq(rest, pos + 1, Len(rest))

NewTree == [nodes |-> << >>, size |-> 0]

\* Put without the sort of the bucket
TreePutUnsorted(t, key, val) ==
    LET n == t.nodes
        same == {i \in 1..Len(n) : n[i].key = key}
        below == Cardinality({i \in 1..Len(n) : n[i].key < key})
    IN  IF same # {}
        THEN LET i == CHOOSE j \in same : TRUE
             IN  [nodes |-> [n EXCEPT ![i].entries = Append(@, val)],
                  size |-> t.size + 1]
        ELSE [nodes |-> SubSeq(n, 1, below) \o <<[key |-> key, entries |-> <<val>>]>>
                            \o SubSeq(n, below + 1, Len(n)),
              size |-> t.size + 1]

TreePut(t, key, val) ==
    LET n == t.nodes
        same == {i \in 1..Len(n) : n[i].key = key}
        below == Cardinality({i \in 1..Len(n) : n[i].key < key})
    IN  IF same # {}
        THEN LET i == CHOOSE j \in same : TRUE
             IN  [nodes |-> [n EXCEPT ![i].entries = SortStrs(Append(@, val))],
                  size |-> t.size + 1]
        ELSE [nodes |-> SubSeq(n, 1, below) \o <<[key |-> key, entries |-> <<val>>]>>
                            \o SubSeq(n, below + 1, Len(n)),
              size |-> t.size + 1]

TreeSize(t) == t.size

\* append(s, more...) on a slice of strings with length len and capacity cap:
\* the capacity afterwards (growslice; the size classes change nothing for
\* fewer than 17 strings)
AppendCap(cap, len, more) ==
    IF len + more <= cap THEN cap
    ELSE IF len + more > 2 * cap THEN len + more
    ELSE 2 * cap

RECURSIVE RangeCap(_, _, _)
RangeCap(nodes, cap, len) ==
    IF nodes = << >> THEN cap
    ELSE LET more == Len(Head(nodes).entries)
         IN  RangeCap(Tail(nodes), AppendCap(cap, len, more), len + more)

\* GetValueSet: the values in key order, with the capacity of the slice that
\* holds them; on a tree without a root Min() dereferences nil
GetValueSet(t) ==
    [panic |-> t.nodes = << >>,
     vals |-> Concat([i \in 1..Len(t.nodes) |-> t.nodes[i].entries]),
     cap |-> RangeCap(t.nodes, 0, 0)]

(***************************************************************************)
(* The red-black tree itself (rbtree.go): the nodes live in a heap, a      *)
(* sequence of node records, and a pointer is the place of a node in the   *)
(* heap, NilNode being the nil pointer.  A tree is its root pointer, its   *)
(* size field and the heap.                                                *)
(***************************************************************************)
NilNode == 0

RED == "R"

BLACK == "B"

NewRbtree == [root |-> NilNode, size |-> 0, heap |-> << >>]

\* &node{key, value: {entries: {val}}, parent, color: RED}
newNode(key, val, parent) ==
    [key |-> key, entries |-> <<val>>, parent |-> parent, left |-> NilNode,
     right |-> NilNode, color |-> RED]

sibling(h, n) ==
    IF n = NilNode \/ h[n].parent = NilNode THEN NilNode
    ELSE IF n = h[h[n].parent].left THEN h[h[n].parent].right
    ELSE h[h[n].parent].left

uncle(h, n) ==
    IF n = NilNode \/ h[n].parent = NilNode \/ h[h[n].parent].parent = NilNode
    THEN NilNode
    ELSE sibling(h, h[n].parent)

grandparent(h, n) ==
    IF n # NilNode /\ h[n].parent # NilNode THEN h[h[n].parent].parent ELSE NilNode

isRed(h, n) == IF n = NilNode THEN FALSE ELSE h[n].color = RED

\* replace(o, n): n takes the place of o under the parent of o
replace(t, o, n) ==
    LET h == t.heap
        t1 == IF h[o].parent = NilNode THEN [t EXCEPT !.root = n]
              ELSE IF o = h[h[o].parent].left THEN [t EXCEPT !.heap[h[o].parent].left = n]
              ELSE [t EXCEPT !.heap[h[o].parent].right = n]
    IN  IF n # NilNode THEN [t1 EXCEPT !.heap[n].parent = h[o].parent] ELSE t1

rotateLeft(t, hd) ==
    LET x == t.heap[hd].right
        t1 == replace(t, hd, x)
        t2 == [t1 EXCEPT !.heap[hd].right = t1.heap[x].left]
        t3 == IF t2.heap[hd].right # NilNode
              THEN [t2 EXCEPT !.heap[t2.heap[hd].right].parent = hd]
              ELSE t2
        t4 == [t3 EXCEPT !.heap[x].left = hd]
    IN  [t4 EXCEPT !.heap[hd].parent = x]

rotateRight(t, hd) ==
    LET x == t.heap[hd].left
        t1 == replace(t, hd, x)
        t2 == [t1 EXCEPT !.heap[hd].left = t1.heap[x].right]
        t3 == IF t2.heap[hd].left # NilNode
              THEN [t2 EXCEPT !.heap[t2.heap[hd].left].parent = hd]
              ELSE t2
        t4 == [t3 EXCEPT !.heap[x].right = hd]
    IN  [t4 EXCEPT !.heap[hd].parent = x]

RECURSIVE insertCase1(_, _)

insertCase5(t, n) ==
    LET p == t.heap[n].parent
        t1 == [t EXCEPT !.heap[p].color = BLACK]
        gp == grandparent(t1.heap, n)
    IN  IF gp = NilNode THEN t1
        ELSE LET t2 == [t1 EXCEPT !.heap[gp].color = RED]
             IN  IF n = t2.heap[p].left /\ p = t2.heap[gp].left THEN rotateRight(t2, gp)
                 ELSE IF n = t2.heap[p].right /\ p = t2.heap[gp].right
                 THEN rotateLeft(t2, gp)
                 ELSE t2

insertCase4(t, n) ==
    LET h == t.heap
        p == h[n].parent
        gp == grandparent(h, n)
    IN  IF gp # NilNode /\ n = h[p].right /\ p = h[gp].left
        THEN LET t1 == rotateLeft(t, p) IN insertCase5(t1, t1.heap[n].left)
        ELSE IF gp # NilNode /\ n = h[p].left /\ p = h[gp].right
        THEN LET t1 == rotateRight(t, p) IN insertCase5(t1, t1.heap[n].right)
        ELSE insertCase5(t, n)

\* a red uncle has a parent, so that gp is not nil when insertCase1 gets it
insertCase3(t, n) ==
    LET h == t.heap
        unc == uncle(h, n)
        gp == grandparent(h, n)
    IN  IF isRed(h, unc)
        THEN LET t1 == [t EXCEPT !.heap[h[n].parent].color = BLACK]
                 t2 == [t1 EXCEPT !.heap[unc].color = BLACK]
                 t3 == IF gp # NilNode THEN [t2 EXCEPT !.heap[gp].color = RED] ELSE t2
             IN  insertCase1(t3, gp)
        ELSE insertCase4(t, n)

insertCase2(t, n) ==
    IF isRed(t.heap, t.heap[n].parent) THEN insertCase3(t, n) ELSE t

insertCase1(t, n) ==
    IF t.heap[n].parent = NilNode THEN [t EXCEPT !.heap[n].color = BLACK]
    ELSE insertCase2(t, n)

\* the loop of Put from the node p: the node y it ends on, which holds the
\* key or is the leaf under which the key belongs
RECURSIVE PutWalk(_, _, _)
PutWalk(h, p, key) ==
    IF key > h[p].key /\ h[p].right # NilNode THEN PutWalk(h, h[p].right, key)
    ELSE IF key < h[p].key /\ h[p].left # NilNode THEN PutWalk(h, h[p].left, key)
    ELSE p

\* Put: the new node is the next place of the heap.  Under a key the tree
\* already holds nothing points to the new node, and it is garbage once Put
\* returns.
Put(t, key, val) ==
    LET n == Len(t.heap) + 1
    IN  IF t.root = NilNode
        THEN LET t1 == [t EXCEPT !.root = n, !.heap = Append(@, newNode(key, val, NilNode))]
             IN  [insertCase1(t1, n) EXCEPT !.size = @ + 1]
        ELSE LET y == PutWalk(t.heap, t.root, key)
                 h1 == Append(t.heap, newNode(key, val, y))
                 h2 == IF key > h1[y].key THEN [h1 EXCEPT ![y].right = n]
                       ELSE IF key < h1[y].key THEN [h1 EXCEPT ![y].left = n]
                       ELSE [h1 EXCEPT ![y].entries = SortStrs(Append(@, val)),
                                       ![y].color = RED]
                 t1 == insertCase1([t EXCEPT !.heap = h2], n)
                 linked == key # t.heap[y].key
             IN  [t1 EXCEPT !.size = @ + 1,
                            !.heap = IF linked THEN @ ELSE SubSeq(@, 1, n - 1)]

\* inOrderTraversal from the node n: the nodes in key order
RECURSIVE inOrderTraversal(_, _)
inOrderTraversal(h, n) ==
    IF n = NilNode THEN << >>
    ELSE inOrderTraversal(h, h[n].left)
             \o <<[key |-> h[n].key, entries |-> h[n].entries]>>
             \o inOrderTraversal(h, h[n].right)

\* get: the node that holds the key under the node p, nil when there is none
RECURSIVE get(_, _, _)
get(h, p, key) ==
    IF p = NilNode THEN NilNode
    ELSE IF key > h[p].key THEN get(h, h[p].right, key)
    ELSE IF key < h[p].key THEN get(h, h[p].left, key)
    ELSE p

RECURSIVE min(_, _)
min(h, n) == IF h[n].left = NilNode THEN n ELSE min(h, h[n].left)

RECURSIVE max(_, _)
max(h, n) == IF h[n].right = NilNode THEN n ELSE max(h, h[n].right)

\* what a step of the deletion gives: the tree, or the panic of a nil
\* pointer dereference
Rebalanced(t) == [panic |-> FALSE, t |-> t]

NilDereference(t) == [panic |-> TRUE, t |-> t]

\* sibling.color = n.parent.color dereferences the sibling
deleteCase6(t, n) ==
    LET p == t.heap[n].parent
        sib == sibling(t.heap, n)
    IN  IF sib = NilNode THEN NilDereference(t)
        ELSE LET t1 == [t EXCEPT !.heap[sib].color = t.heap[p].color]
                 t2 == [t1 EXCEPT !.heap[p].color = BLACK]
                 h == t2.heap
             IN  IF n = h[p].left /\ isRed(h, h[sib].right)
                 THEN Rebalanced(rotateLeft([t2 EXCEPT !.heap[h[sib].right].color = BLACK], p))
                 ELSE IF isRed(h, h[sib].left)
                 THEN Rebalanced(rotateRight([t2 EXCEPT !.heap[h[sib].left].color = BLACK], p))
                 ELSE Rebalanced(t2)

\* n is the left or the right child of its parent, and both conditions read
\* a child of the sibling once isRed(sibling) is false
deleteCase5(t, n) ==
    LET h == t.heap
        p == h[n].parent
        sib == sibling(h, n)
    IN  IF sib = NilNode THEN NilDereference(t)
        ELSE IF n = h[p].left /\ ~isRed(h, sib) /\ isRed(h, h[sib].left)
                /\ ~isRed(h, h[sib].right)
        THEN LET t1 == [t EXCEPT !.heap[sib].color = RED]
                 t2 == [t1 EXCEPT !.heap[h[sib].left].color = BLACK]
             IN  deleteCase6(rotateRight(t2, sib), n)
        ELSE IF n = h[p].right /\ ~isRed(h, sib) /\ isRed(h, h[sib].right)
                /\ ~isRed(h, h[sib].left)
        THEN LET t1 == [t EXCEPT !.heap[sib].color = RED]
                 t2 == [t1 EXCEPT !.heap[h[sib].right].color = BLACK]
             IN  deleteCase6(rotateLeft(t2, sib), n)
        ELSE deleteCase6(t, n)

\* with a red parent and no sibling the condition reads sibling.left
deleteCase4(t, n) ==
    LET h == t.heap
        p == h[n].parent
        sib == sibling(h, n)
    IN  IF isRed(h, p) /\ sib = NilNode THEN NilDereference(t)
        ELSE IF isRed(h, p) /\ ~isRed(h, sib) /\ ~isRed(h, h[sib].left)
                /\ ~isRed(h, h[sib].right)
        THEN LET t1 == [t EXCEPT !.heap[sib].color = RED]
             IN  Rebalanced([t1 EXCEPT !.heap[p].color = BLACK])
        ELSE deleteCase5(t, n)

RECURSIVE deleteCase1(_, _)

\* with a black parent and no sibling the condition reads sibling.left
deleteCase3(t, n) ==
    LET h == t.heap
        p == h[n].parent
        sib == sibling(h, n)
    IN  IF ~isRed(h, p) /\ sib = NilNode THEN NilDereference(t)
        ELSE IF ~isRed(h, p) /\ ~isRed(h, sib) /\ ~isRed(h, h[sib].left)
                /\ ~isRed(h, h[sib].right)
        THEN deleteCase1([t EXCEPT !.heap[sib].color = RED], p)
        ELSE deleteCase4(t, n)

deleteCase2(t, n) ==
    LET h == t.heap
        p == h[n].parent
        sib == sibling(h, n)
    IN  IF isRed(h, sib)
        THEN LET t1 == [t EXCEPT !.heap[p].color = RED]
                 t2 == [t1 EXCEPT !.heap[sib].color = BLACK]
             IN  deleteCase3(IF n = h[p].left THEN rotateLeft(t2, p) ELSE rotateRight(t2, p), n)
        ELSE deleteCase3(t, n)

deleteCase1(t, n) ==
    IF t.heap[n].parent = NilNode THEN Rebalanced(t) ELSE deleteCase2(t, n)

\* remove: a node with two children takes the key and the entries of its
\* predecessor, and the predecessor is the node unlinked; the size goes down
\* by one
remove(t, n) ==
    IF n = NilNode THEN Rebalanced(t)
    ELSE LET h == t.heap
             two == h[n].left # NilNode /\ h[n].right # NilNode
             predecessor == max(h, h[n].left)
             t1 == IF two
                   THEN [t EXCEPT !.heap[n].key = h[predecessor].key,
                                  !.heap[n].entries = h[predecessor].entries]
                   ELSE t
             m == IF two THEN predecessor ELSE n
             c == IF t1.heap[m].right = NilNode THEN t1.heap[m].left ELSE t1.heap[m].right
         IN  IF t1.heap[m].left = NilNode \/ t1.heap[m].right = NilNode
             THEN LET d == IF ~isRed(t1.heap, m)
                           THEN deleteCase1(IF c # NilNode
                                            THEN [t1 EXCEPT !.heap[m].color = t1.heap[c].color]
                                            ELSE t1, m)
                           ELSE Rebalanced(t1)
                      t3 == replace(d.t, m, c)
                      t4 == IF t3.heap[m].parent = NilNode /\ c # NilNode
                            THEN [t3 EXCEPT !.heap[c].color = BLACK]
                            ELSE t3
                  IN  IF d.panic THEN d ELSE Rebalanced([t4 EXCEPT !.size = @ - 1])
             ELSE Rebalanced([t1 EXCEPT !.size = @ - 1])

Remove(t, key) == remove(t, get(t.heap, t.root, key))

\* rangeGetKeys from the node n: the key of a node once for each of its
\* entries, the subtrees visited as lo and hi allow
RECURSIVE rangeGetKeys(_, _, _, _)
rangeGetKeys(h, n, lo, hi) ==
    IF n = NilNode THEN << >>
    ELSE (IF h[n].key > lo THEN rangeGetKeys(h, h[n].left, lo, hi) ELSE << >>)
         \o (IF h[n].key >= lo /\ h[n].key <= hi
             THEN [i \in 1..Len(h[n].entries) |-> h[n].key]
             ELSE << >>)
         \o (IF h[n].key < hi THEN rangeGetKeys(h, h[n].right, lo, hi) ELSE << >>)

\* GetKeySet: RangeGetKeys(t.Min(), t.Max()); Min() reads t.root.left, a nil
\* pointer dereference on a tree without root
GetKeySet(t) ==
    IF t.root = NilNode THEN [panic |-> TRUE, keys |-> << >>]
    ELSE [panic |-> FALSE,
          keys |-> rangeGetKeys(t.heap, t.root, t.heap[min(t.heap, t.root)].key,
                                t.heap[max(t.heap, t.root)].key)]

Size(t) == t.size

(***************************************************************************)
(* The keyspace (keyspace.go).  A keyspace value is a record of the tag    *)
(* map keys, the three group maps and the modification counter.  Every     *)
(* operator below is one critical section of the keyspace mutex and gives  *)
(* the keyspace afterwards together with what the method returns.          *)
(***************************************************************************)
MillisPerSecond == 1000

keyspaceEntry(group, expires) == [group |-> group, expires |-> expires]

newKeyspace ==
    [keys |-> EmptyMap, stringMap |-> EmptyMap, listMap |-> EmptyMap,
     sortedSetMap |-> EmptyMap, modifications |-> 0]

\* time.Time.After
After(t, u) == t > u

CheckIsExpired(now, ke) == ke.expires # Nil /\ After(now, ke.expires[1])

KeyResultNone == [str |-> Nil, arr |-> Nil]

IsValid(kr) == kr.str # Nil \/ kr.arr # Nil

IsString(kr) == IsValid(kr) /\ kr.str # Nil

\* Get, first critical section (read lock): the tag of the key, nil if absent
GetLookup(ks, key) == IF Has(ks.keys, key) THEN Some(ks.keys[key]) ELSE Nil

\* Get, the write-locked deletion taken when the tag read before is expired
GetExpire(ks, key, ke) ==
    [ks EXCEPT
        !.stringMap = IF ke.group = "string" THEN MapDelete(@, key) ELSE @,
        !.listMap = IF ke.group = "list" THEN MapDelete(@, key) ELSE @,
        !.keys = MapDelete(@, key),
        !.modifications = @ + 1]

\* Get, the read-locked read of the value under the group of the tag read
\* before; a key missing from the map reads as the zero value
GetRead(ks, key, ke) ==
    IF ke.group = "string"
    THEN [str |-> Some(IF Has(ks.stringMap, key) THEN ks.stringMap[key] ELSE << >>),
          arr |-> Nil]
    ELSE IF ke.group = "list"
    THEN [str |-> Nil,
          arr |-> Some(ToSlice(IF Has(ks.listMap, key) THEN ks.listMap[key] ELSE NewList))]
    ELSE KeyResultNone

\* a Get that removes the key it found whether its deadline has passed or not
GetResolveRemoves(ks, key, ke, now) ==
    [ks |-> GetExpire(ks, key, ke), kr |-> KeyResultNone]

\* Get after its lookup found the tag ke: what the rest of Get does at now
GetResolve(ks, key, ke, now) ==
    IF CheckIsExpired(now, ke)
    THEN [ks |-> GetExpire(ks, key, ke), kr |-> KeyResultNone]
    ELSE [ks |-> ks, kr |-> GetRead(ks, key, ke)]

\* Get with nothing running between its critical sections
Get(ks, key, now) ==
    LET ke == GetLookup(ks, key)
    IN  IF ke = Nil THEN [ks |-> ks, kr |-> KeyResultNone]
        ELSE GetResolve(ks, key, ke[1], now)

\* an EXPIRE that counts from now whatever deadline the key has
ExpireFromNow(ks, key, duration, now) ==
    IF ~Has(ks.keys, key) THEN [ks |-> ks, ok |-> FALSE]
    ELSE [ks |-> [ks EXCEPT
                    !.keys = MapPut(@, key, keyspaceEntry(ks.keys[key].group,
                                                          Some(now + duration * MillisPerSecond))),
                    !.modifications = @ + 1],
          ok |-> TRUE]

Expire(ks, key, duration, now) ==
    IF ~Has(ks.keys, key) THEN [ks |-> ks, ok |-> FALSE]
    ELSE LET ke == ks.keys[key]
             final == IF ke.expires = Nil THEN now + duration * MillisPerSecond
                      ELSE ke.expires[1] + duration * MillisPerSecond
         IN  [ks |-> [ks EXCEPT !.keys = MapPut(@, key, keyspaceEntry(ke.group, Some(final))),
                                !.modifications = @ + 1],
              ok |-> TRUE]

\* an EXPIREAT that adds the instant to the deadline the key has
ExpireAtAdds(ks, key, deadline) ==
    IF ~Has(ks.keys, key) THEN [ks |-> ks, ok |-> FALSE]
    ELSE LET ke == ks.keys[key]
         IN  [ks |-> [ks EXCEPT
                        !.keys = MapPut(@, key, keyspaceEntry(ke.group,
                                    Some((IF ke.expires = Nil THEN 0 ELSE ke.expires[1]) + deadline))),
                        !.modifications = @ + 1],
              ok |-> TRUE]

ExpireAt(ks, key, deadline) ==
    IF ~Has(ks.keys, key) THEN [ks |-> ks, ok |-> FALSE]
    ELSE [ks |-> [ks EXCEPT
                    !.keys = MapPut(@, key, keyspaceEntry(ks.keys[key].group, Some(deadline))),
                    !.modifications = @ + 1],
          ok |-> TRUE]

\* a BulkExists that counts an existing key once however often it is named
RECURSIVE BulkExistsLoopOnce(_, _, _)
BulkExistsLoopOnce(ks, keys, keyCount) ==
    IF keys = << >> THEN keyCount
    ELSE BulkExistsLoopOnce(ks, Tail(keys),
            MapPut(keyCount, Head(keys), IF Has(ks.keys, Head(keys)) THEN 1 ELSE 0))

RECURSIVE BulkExistsLoop(_, _, _)
BulkExistsLoop(ks, keys, keyCount) ==
    IF keys = << >> THEN keyCount
    ELSE LET key == Head(keys)
             next == IF Has(ks.keys, key)
                     THEN MapPut(keyCount, key,
                                 IF Has(keyCount, key) THEN keyCount[key] + 1 ELSE 1)
                     ELSE MapPut(keyCount, key, 0)
         IN  BulkExistsLoop(ks, Tail(keys), next)

BulkExists(ks, keys) == BulkExistsLoop(ks, keys, EmptyMap)

\* a BulkDelete whose loop body deletes nothing
BulkDeleteOneSkips(st, key) == st

\* a removal that takes one from the counter
BulkDeleteOneUncounts(st, key) ==
    [st EXCEPT !.ks.keys = MapDelete(@, key),
               !.ks.stringMap = MapDelete(@, key),
               !.ks.modifications = @ - 1]

\* a removal that counts a key again each time it is named
BulkDeleteOneCountsAgain(st, key) ==
    IF Has(st.ks.keys, key)
    THEN [ks |-> [st.ks EXCEPT !.stringMap = MapDelete(@, key),
                               !.listMap = MapDelete(@, key),
                               !.keys = MapDelete(@, key),
                               !.modifications = @ + 1],
          keyCount |-> MapPut(st.keyCount, key, 1)]
    ELSE [ks |-> st.ks,
          keyCount |-> MapPut(st.keyCount, key,
                              IF Has(st.keyCount, key) /\ st.keyCount[key] > 0
                              THEN st.keyCount[key] + 1 ELSE 0)]

\* one round of the loop of BulkDelete
BulkDeleteOne(st, key) ==
    LET ks == st.ks
        keyCount == st.keyCount
    IN  IF Has(ks.keys, key)
        THEN LET ke == ks.keys[key]
             IN  [ks |-> [ks EXCEPT
                            !.stringMap = IF ke.group = "string" THEN MapDelete(@, key) ELSE @,
                            !.listMap = IF ke.group = "list" THEN MapDelete(@, key) ELSE @,
                            !.keys = MapDelete(@, key),
                            !.modifications = @ + 1],
                  keyCount |-> MapPut(keyCount, key,
                                      IF Has(keyCount, key) THEN keyCount[key] + 1 ELSE 1)]
        ELSE [ks |-> ks,
              keyCount |-> IF Has(keyCount, key) THEN keyCount ELSE MapPut(keyCount, key, 0)]

RECURSIVE BulkDeleteLoop(_, _)
BulkDeleteLoop(st, keys) ==
    IF keys = << >> THEN st
    ELSE BulkDeleteLoop(BulkDeleteOne(st, Head(keys)), Tail(keys))

BulkDelete(ks, keys) == BulkDeleteLoop([ks |-> ks, keyCount |-> EmptyMap], keys)

\* an ExpiryDuration is <<magnitude, resolution>>, the resolution in milliseconds
ExpiryFinal(exp, now) == IF exp = Nil THEN Nil ELSE Some(now + exp[1][1] * exp[1][2])

\* a SetStringKey that keeps the deadline the key had when none is asked for
SetStringKeyKeepsExpiry(ks, key, value, exp, now) ==
    [ks EXCEPT
        !.listMap = IF Has(ks.keys, key) /\ ks.keys[key].group = "list"
                    THEN MapDelete(@, key) ELSE @,
        !.stringMap = MapPut(@, key, value),
        !.keys = MapPut(@, key,
                        keyspaceEntry("string",
                                      IF exp = Nil /\ Has(ks.keys, key) THEN ks.keys[key].expires
                                      ELSE ExpiryFinal(exp, now))),
        !.modifications = @ + 1]

SetStringKey(ks, key, value, exp, now) ==
    [ks EXCEPT
        !.listMap = IF Has(ks.keys, key) /\ ks.keys[key].group = "list"
                    THEN MapDelete(@, key) ELSE @,
        !.stringMap = MapPut(@, key, value),
        !.keys = MapPut(@, key, keyspaceEntry("string", ExpiryFinal(exp, now))),
        !.modifications = @ + 1]

SetListKey(ks, key, value, exp, now) ==
    [ks EXCEPT
        !.stringMap = IF Has(ks.keys, key) /\ ks.keys[key].group = "string"
                      THEN MapDelete(@, key) ELSE @,
        !.listMap = MapPut(@, key, NewListFromSlice(value)),
        !.keys = MapPut(@, key, keyspaceEntry("string", ExpiryFinal(exp, now))),
        !.modifications = @ + 1]

KsErr(ks, text) == [ks |-> ks, val |-> 0, err |-> Some(text)]

KsVal(ks, v) == [ks |-> ks, val |-> v, err |-> Nil]

ErrUnsupported(key) == <<"key '">> \o key \o <<"' does not support this operation">>

ErrNotFound(key) == <<"key '">> \o key \o <<"' not found">>

ErrNotInteger(key) == <<"key '">> \o key \o <<"' cannot be parsed to integer">>

\* an IncrementBy that counts the modification before it looks at the value
IncrementByCountsFirst(ks, key, value) ==
    LET counted == [ks EXCEPT !.modifications = @ + 1]
    IN  IF ~Has(ks.keys, key)
        THEN KsVal([ks EXCEPT !.keys = MapPut(@, key, keyspaceEntry("string", Nil)),
                              !.stringMap = MapPut(@, key, <<"0">>)],
                   Int64(FALSE, <<"0">>))
        ELSE IF ks.keys[key].group # "string" THEN KsErr(counted, ErrUnsupported(key))
        ELSE IF ~Has(ks.stringMap, key) THEN KsErr(counted, ErrNotFound(key))
        ELSE LET intVal == ParseInt64(ks.stringMap[key])
                 newVal == Int64Add(intVal.val, value)
             IN  IF ~intVal.ok THEN KsErr(counted, ErrNotInteger(key))
                 ELSE KsVal([counted EXCEPT !.stringMap = MapPut(@, key, FormatInt64(newVal))],
                            newVal)

IncrementBy(ks, key, value) ==
    IF ~Has(ks.keys, key)
    THEN KsVal([ks EXCEPT !.keys = MapPut(@, key, keyspaceEntry("string", Nil)),
                          !.stringMap = MapPut(@, key, <<"0">>)],
               Int64(FALSE, <<"0">>))
    ELSE IF ks.keys[key].group # "string" THEN KsErr(ks, ErrUnsupported(key))
    ELSE IF ~Has(ks.stringMap, key) THEN KsErr(ks, ErrNotFound(key))
    ELSE LET intVal == ParseInt64(ks.stringMap[key])
             newVal == Int64Add(intVal.val, value)
         IN  IF ~intVal.ok THEN KsErr(ks, ErrNotInteger(key))
             ELSE KsVal([ks EXCEPT !.stringMap = MapPut(@, key, FormatInt64(newVal)),
                                   !.modifications = @ + 1], newVal)

PushToTail(ks, key, values) ==
    IF ~Has(ks.keys, key)
    THEN KsVal([ks EXCEPT !.listMap = MapPut(@, key, NewListFromSlice(values)),
                          !.keys = MapPut(@, key, keyspaceEntry("list", Nil))],
               Len(values))
    ELSE IF ks.keys[key].group # "list" THEN KsErr(ks, ErrUnsupported(key))
    ELSE IF ~Has(ks.listMap, key) THEN KsErr(ks, ErrNotFound(key))
    ELSE LET listVal == AppendSliceToTail(ks.listMap[key], values)
         IN  KsVal([ks EXCEPT !.listMap = MapPut(@, key, listVal),
                              !.modifications = @ + 1], Len(listVal))

PushToHead(ks, key, values) ==
    IF ~Has(ks.keys, key)
    THEN KsVal([ks EXCEPT !.listMap = MapPut(@, key, NewListFromSlice(values)),
                          !.keys = MapPut(@, key, keyspaceEntry("list", Nil))],
               Len(values))
    ELSE IF ks.keys[key].group # "list" THEN KsErr(ks, ErrUnsupported(key))
    ELSE IF ~Has(ks.listMap, key) THEN KsErr(ks, ErrNotFound(key))
    ELSE LET listVal == AppendSliceToHead(ks.listMap[key], values)
         IN  KsVal([ks EXCEPT !.listMap = MapPut(@, key, listVal),
                              !.modifications = @ + 1], Len(listVal))

\* the loop of PutInSortedSet over values[i], values[i+1]
RECURSIVE PutPairs(_, _, _)
PutPairs(st, values, i) ==
    IF i > Len(values) THEN st
    ELSE LET score == ParseFloat(values[i])
         IN  IF ~score.ok THEN PutPairs(st, values, i + 2)
             ELSE PutPairs([setVal |-> TreePut(st.setVal, score.val, values[i + 1]),
                            added |-> st.added + 1], values, i + 2)

PutInSortedSet(ks, key, values) ==
    LET absent == ~Has(ks.keys, key)
        ks1 == IF absent
               THEN [ks EXCEPT !.sortedSetMap = MapPut(@, key, NewTree),
                               !.keys = MapPut(@, key, keyspaceEntry("sorted-set", Nil))]
               ELSE ks
        ke == ks1.keys[key]
    IN  IF ke.group # "sorted-set" THEN KsErr(ks1, ErrUnsupported(key))
        ELSE IF ~Has(ks1.sortedSetMap, key) THEN KsErr(ks1, ErrNotFound(key))
        ELSE LET st == PutPairs([setVal |-> ks1.sortedSetMap[key], added |-> 0], values, 1)
             IN  KsVal([ks1 EXCEPT !.sortedSetMap = MapPut(@, key, st.setVal),
                                   !.modifications = @ + 1], st.added)

RangeErr(text) == [vals |-> << >>, err |-> Some(text), panic |-> FALSE]

RangePanic == [vals |-> << >>, err |-> Nil, panic |-> TRUE]

\* allValues[start:stop]: the bounds are checked against the capacity, and
\* the elements between the length and the capacity are empty strings
GetSortedSetValuesByRange(ks, key, start, stop) ==
    IF ~Has(ks.keys, key) THEN RangeErr(ErrUnsupported(key))
    ELSE IF ks.keys[key].group # "sorted-set" THEN RangeErr(ErrUnsupported(key))
    ELSE IF ~Has(ks.sortedSetMap, key) THEN RangeErr(ErrNotFound(key))
    ELSE LET setVal == ks.sortedSetMap[key]
             stop2 == IF stop < 0 THEN TreeSize(setVal) + stop + 1 ELSE stop
             all == GetValueSet(setVal)
         IN  IF all.panic THEN RangePanic
             ELSE IF start < 0 \/ start > stop2 \/ stop2 > all.cap THEN RangePanic
             ELSE [vals |-> [i \in 1..(stop2 - start) |->
                               IF start + i <= Len(all.vals) THEN all.vals[start + i]
                               ELSE << >>],
                   err |-> Nil, panic |-> FALSE]

(***************************************************************************)
(* The command layer (command.go).  Each process* operator gives the       *)
(* keyspace afterwards, the response r and the Go error err (nil or a      *)
(* text); panic tells that the call ended in a run-time panic.             *)
(***************************************************************************)
CmdOk(ks, r) == [ks |-> ks, r |-> r, err |-> Nil, panic |-> FALSE]

CmdErr(ks, text) == [ks |-> ks, r |-> << >>, err |-> Some(text), panic |-> FALSE]

CmdPanic(ks) == [ks |-> ks, r |-> << >>, err |-> Nil, panic |-> TRUE]

wrongNumOfArgsErr == <<"wrong number of arguments.">>

ErrParseInt(raw) == <<"strconv.ParseInt: parsing ">> \o raw \o <<": invalid syntax">>

CouldNotParse(raw, what) == <<"could not parse '">> \o raw \o <<"' to ">> \o <<what>>

\* the type switch of SetKey: a value is a string or a slice of strings
StringValue(v) == [type |-> "string", v |-> v]

SliceValue(v) == [type |-> "[]string", v |-> v]

SetKey(ks, key, value, exp, now) ==
    IF value.type = "string" THEN SetStringKey(ks, key, value.v, exp, now)
    ELSE SetListKey(ks, key, value.v, exp, now)

processEcho(args, ks) ==
    IF Len(args) # 1 THEN CmdErr(ks, wrongNumOfArgsErr)
    ELSE CmdOk(ks, SerializeBulkString(args[1]))

processSet(args, ks, now) ==
    LET nArgs == Len(args) IN
    IF nArgs < 2 THEN CmdErr(ks, wrongNumOfArgsErr)
    ELSE IF nArgs > 2 /\ nArgs # 4 THEN CmdErr(ks, wrongNumOfArgsErr)
    ELSE IF nArgs > 2
    THEN LET resolutionType == ToUpper(args[3])
             resolution == IF resolutionType = <<"E", "X">> THEN MillisPerSecond ELSE 1
             delta == ParseInt(args[4])
         IN  IF resolutionType # <<"E", "X">> /\ resolutionType # <<"P", "X">>
             THEN CmdErr(ks, <<"invalid resolution type">>)
             ELSE IF ~delta.ok THEN CmdErr(ks, ErrParseInt(args[4]))
             ELSE CmdOk(SetKey(ks, args[1], StringValue(args[2]),
                               Some(<<delta.val, resolution>>), now),
                        OK_SIMPLE_STRING)
    ELSE CmdOk(SetKey(ks, args[1], StringValue(args[2]), Nil, now), OK_SIMPLE_STRING)

\* the response of processGet for the result of keyspace.Get
GetReply(kr) ==
    IF ~IsValid(kr) \/ ~IsString(kr) THEN NIL_BULK_STRING
    ELSE SerializeBulkString(kr.str[1])

processGet(args, ks, now) ==
    IF Len(args) # 1 THEN CmdErr(ks, wrongNumOfArgsErr)
    ELSE LET k == Get(ks, args[1], now) IN CmdOk(k.ks, GetReply(k.kr))

processExpire(args, ks, now) ==
    IF Len(args) # 2 THEN CmdErr(ks, wrongNumOfArgsErr)
    ELSE LET delta == ParseInt(args[2])
             e == Expire(ks, args[1], delta.val, now)
         IN  IF ~delta.ok
             THEN CmdOk(ks, SerializeSimpleError(CouldNotParse(args[2], "integer")))
             ELSE CmdOk(e.ks, SerializeInteger(IF e.ok THEN 1 ELSE 0))

processExpireAt(args, ks) ==
    IF Len(args) # 2 THEN CmdErr(ks, wrongNumOfArgsErr)
    ELSE LET stamp == ParseInt(args[2])
             e == ExpireAt(ks, args[1], stamp.val * MillisPerSecond)
         IN  IF ~stamp.ok
             THEN CmdOk(ks, SerializeSimpleError(CouldNotParse(args[2], "integer")))
             ELSE CmdOk(e.ks, SerializeInteger(IF e.ok THEN 1 ELSE 0))

\* the sum of the positive counts of a key count map
FinalCount(keyCount) ==
    LET ks == SeqOfSet(DOMAIN keyCount)
    IN  SumSeq([i \in 1..Len(ks) |-> IF keyCount[ks[i]] > 0 THEN keyCount[ks[i]] ELSE 0])

processExists(args, ks) ==
    IF Len(args) < 1 THEN CmdErr(ks, wrongNumOfArgsErr)
    ELSE CmdOk(ks, SerializeInteger(FinalCount(BulkExists(ks, args))))

processDelete(args, ks) ==
    IF Len(args) < 1 THEN CmdErr(ks, wrongNumOfArgsErr)
    ELSE LET d == BulkDelete(ks, args)
         IN  CmdOk(d.ks, SerializeInteger(FinalCount(d.keyCount)))

\* what processIncrement, processRPush, .. make of a keyspace result
IntegerReply(res) ==
    IF res.err # Nil THEN CmdOk(res.ks, SerializeSimpleError(res.err[1]))
    ELSE CmdOk(res.ks, SerializeInteger(res.val))

\* SerializeInteger of the int IncrementBy returns, or the simple error
Int64Reply(res) ==
    IF res.err # Nil THEN CmdOk(res.ks, SerializeSimpleError(res.err[1]))
    ELSE CmdOk(res.ks, <<":">> \o FormatInt64(res.val) \o CRLF)

processIncrement(args, ks) ==
    IF Len(args) # 1 THEN CmdErr(ks, wrongNumOfArgsErr)
    ELSE Int64Reply(IncrementBy(ks, args[1], 1))

processDecrement(args, ks) ==
    IF Len(args) # 1 THEN CmdErr(ks, wrongNumOfArgsErr)
    ELSE Int64Reply(IncrementBy(ks, args[1], 0 - 1))

processRPush(args, ks) ==
    IF Len(args) < 1 THEN CmdErr(ks, wrongNumOfArgsErr)
    ELSE IntegerReply(PushToTail(ks, args[1], Tail(args)))

processLPush(args, ks) ==
    IF Len(args) < 1 THEN CmdErr(ks, wrongNumOfArgsErr)
    ELSE IntegerReply(PushToHead(ks, args[1], Tail(args)))

processZAdd(args, ks) ==
    IF Len(args) < 3 THEN CmdErr(ks, wrongNumOfArgsErr)
    ELSE LET values == Tail(args)
             bad == {i \in 1..Len(values) : i % 2 = 1 /\ ~ParseFloat(values[i]).ok}
             first == CHOOSE i \in bad : \A j \in bad : i <= j
         IN  IF Len(values) % 2 # 0
             THEN CmdOk(ks, SerializeSimpleError(<<"<score> <member> values must come in pairs">>))
             ELSE IF bad # {}
             THEN CmdOk(ks, SerializeSimpleError(CouldNotParse(values[first], "float")))
             ELSE IntegerReply(PutInSortedSet(ks, args[1], values))

processZRange(args, ks) ==
    IF Len(args) # 3 THEN CmdErr(ks, wrongNumOfArgsErr)
    ELSE LET start == ParseIntBase0(args[2])
             stop == ParseIntBase0(args[3])
             got == GetSortedSetValuesByRange(ks, args[1], start.val, stop.val)
         IN  IF ~start.ok
             THEN CmdOk(ks, SerializeSimpleError(CouldNotParse(args[2], "integer")))
             ELSE IF ~stop.ok
             THEN CmdOk(ks, SerializeSimpleError(CouldNotParse(args[3], "integer")))
             ELSE IF got.panic THEN CmdPanic(ks)
             ELSE IF got.err # Nil THEN CmdOk(ks, SerializeSimpleError(got.err[1]))
             ELSE CmdOk(ks, SerializeArray(got.vals))

(***************************************************************************)
(* Parse and Process (command.go): the command table and the dispatch of   *)
(* the commands that work on the keyspace.                                 *)
(***************************************************************************)
cmdParseTable ==
    [lower \in {<<"p", "i", "n", "g">>, <<"e", "c", "h", "o">>, <<"s", "e", "t">>, <<"g", "e", "t">>, <<"e", "x", "p", "i", "r", "e">>, <<"e", "x", "p", "i", "r", "e", "a", "t">>,
                <<"e", "x", "i", "s", "t", "s">>, <<"d", "e", "l">>, <<"i", "n", "c", "r">>, <<"d", "e", "c", "r">>, <<"r", "p", "u", "s", "h">>, <<"l", "p", "u", "s", "h">>,
                <<"s", "u", "b", "s", "c", "r", "i", "b", "e">>, <<"p", "u", "b", "l", "i", "s", "h">>, <<"z", "a", "d", "d">>, <<"z", "r", "a", "n", "g", "e">>}
        |-> ToUpper(lower)]

\* Parse of the decoded strings (processed: nil or a slice): the command and
\* its arguments, an error for a name outside the table, a panic on the index
\* 0 of a nil or empty slice
Parse(processed) ==
    IF processed = Nil \/ processed[1] = << >>
    THEN [kind |-> "panic", cmd |-> << >>, args |-> << >>, err |-> << >>]
    ELSE LET lower == ToLower(processed[1][1])
         IN  IF lower \in DOMAIN cmdParseTable
             THEN [kind |-> "ok", cmd |-> cmdParseTable[lower],
                   args |-> Tail(processed[1]), err |-> << >>]
             ELSE [kind |-> "err", cmd |-> << >>, args |-> << >>,
                   err |-> <<"invalid command: '">> \o lower \o <<"'">>]

PONG == <<"+", "P", "O", "N", "G", CR, LF>>

\* the switch of Process for the commands that need the keyspace only
ProcessKeyspaceCommand(cmd, args, ks, now) ==
    IF cmd = <<"P", "I", "N", "G">> THEN CmdOk(ks, PONG)
    ELSE IF cmd = <<"E", "C", "H", "O">> THEN processEcho(args, ks)
    ELSE IF cmd = <<"S", "E", "T">> THEN processSet(args, ks, now)
    ELSE IF cmd = <<"G", "E", "T">> THEN processGet(args, ks, now)
    ELSE IF cmd = <<"E", "X", "P", "I", "R", "E">> THEN processExpire(args, ks, now)
    ELSE IF cmd = <<"E", "X", "P", "I", "R", "E", "A", "T">> THEN processExpireAt(args, ks)
    ELSE IF cmd = <<"E", "X", "I", "S", "T", "S">> THEN processExists(args, ks)
    ELSE IF cmd = <<"D", "E", "L">> THEN processDelete(args, ks)
    ELSE IF cmd = <<"I", "N", "C", "R">> THEN processIncrement(args, ks)
    ELSE IF cmd = <<"D", "E", "C", "R">> THEN processDecrement(args, ks)
    ELSE IF cmd = <<"R", "P", "U", "S", "H">> THEN processRPush(args, ks)
    ELSE IF cmd = <<"L", "P", "U", "S", "H">> THEN processLPush(args, ks)
    ELSE IF cmd = <<"Z", "A", "D", "D">> THEN processZAdd(args, ks)
    ELSE IF cmd = <<"Z", "R", "A", "N", "G", "E">> THEN processZRange(args, ks)
    ELSE CmdErr(ks, <<"invalid command">>)

(***************************************************************************)
(* Save and Load (app.go).  The snapshot is the sequence of bytes written. *)
(***************************************************************************)
\* time.Unix of an instant given in milliseconds
Unix(t) == t \div MillisPerSecond

ExpireAtFrame(k, expires) ==
    LET exp == FormatInt(Unix(expires))
    IN  <<"*", "3", CR, LF, "$", "8", CR, LF, "e", "x", "p", "i", "r", "e", "a", "t", CR, LF>> \o SerializeBulkString(k)
            \o <<"$">> \o FormatInt(Len(exp)) \o CRLF \o exp \o CRLF

\* what the first loop of Save prints for the string key k
SaveString(ks, k) ==
    <<"*", "3", CR, LF, "$", "3", CR, LF, "s", "e", "t", CR, LF>> \o SerializeBulkString(k) \o SerializeBulkString(ks.stringMap[k])
        \o (IF Has(ks.keys, k) /\ ks.keys[k].expires # Nil
            THEN ExpireAtFrame(k, ks.keys[k].expires[1]) ELSE << >>)

\* what the second loop of Save prints for the list key k
SaveList(ks, k) ==
    LET v == ks.listMap[k]
        slice == ToSlice(v)
    IN  IF Len(v) > 0
        THEN <<"*">> \o FormatInt(Len(v) + 2) \o CRLF \o <<"$", "5", CR, LF, "r", "p", "u", "s", "h", CR, LF>>
                \o <<"$">> \o FormatInt(Len(k)) \o CRLF \o k \o CRLF
                \o Concat([i \in 1..Len(slice) |-> SerializeBulkString(slice[i])])
                \o (IF Has(ks.keys, k) /\ ks.keys[k].expires # Nil
                    THEN ExpireAtFrame(k, ks.keys[k].expires[1]) ELSE << >>)
        ELSE << >>

\* the orders in which a range over a map with the keys S may run
Orders(S) == {o \in [1..Cardinality(S) -> S] : \A k \in S : \E i \in DOMAIN o : o[i] = k}

\* the bytes Save writes when its loops visit the keys in these orders
SaveBytes(ks, strOrder, listOrder) ==
    Concat([i \in 1..Len(strOrder) |-> SaveString(ks, strOrder[i])])
        \o Concat([i \in 1..Len(listOrder) |-> SaveList(ks, listOrder[i])])

ResetCounter(ks) == [ks EXCEPT !.modifications = 0]

\* the tokens a Scanner with the split function splitByBulkArray yields
RECURSIVE ScanTokens(_)
ScanTokens(data) ==
    IF data = << >> THEN << >>
    ELSE LET i == IndexOf(data, <<LF, "*">>)
         IN  IF i = 0 THEN <<data>>
             ELSE <<SubSeq(data, 1, i)>> \o ScanTokens(SubSeq(data, i + 1, Len(data)))

\* one turn of the loop of Load: decode, parse and process a token; a token
\* that fails is skipped
LoadToken(st, line, now) ==
    LET dec == DecodeMessage(line)
        parsed == Parse(dec.val)
        res == ProcessKeyspaceCommand(parsed.cmd, parsed.args, st.ks, now)
    IN  IF st.panic THEN st
        ELSE IF dec.kind = "panic" THEN [st EXCEPT !.panic = TRUE]
        ELSE IF dec.kind = "err" THEN st
        ELSE IF parsed.kind = "panic" THEN [st EXCEPT !.panic = TRUE]
        ELSE IF parsed.kind = "err" THEN st
        ELSE [ks |-> res.ks, panic |-> res.panic]

RECURSIVE LoadLoop(_, _, _)
LoadLoop(st, tokens, now) ==
    IF tokens = << >> THEN st
    ELSE LoadLoop(LoadToken(st, Head(tokens), now), Tail(tokens), now)

\* Load: the keyspace after replaying the snapshot, or a panic on the way
Load(ks, data, now) ==
    LET st == LoadLoop([ks |-> ks, panic |-> FALSE], ScanTokens(data), now)
    IN  IF st.panic THEN st ELSE [ks |-> ResetCounter(st.ks), panic |-> FALSE]

(***************************************************************************)
(* State.                                                                  *)
(*   keyspace  the keyspace of the application state                       *)
(*   now       the clock                                                   *)
(*   pending   the GET the consumer is in: nil, or the key and the tag it  *)
(*             read in its first critical section                         *)
(*   last      the command the consumer finished last, with its response   *)
(*   expirer   per runner of the expirer ticker: nil, or the keys its scan *)
(*             found expired and its BulkDelete has still to delete        *)
(*   panicked  a goroutine panicked, which ends the process                *)
(*   rdb       the bytes of the snapshot file redis-go.rdb                 *)
(*   saver     per run of SaveAfterNChanges: where it is (pc), the value   *)
(*             the counter had when Save read the keyspace (atRead), the   *)
(*             offset of its file handle (off), whether the disk failed it *)
(*   restored  nil, or the outcome of Load in a process started on rdb     *)
(*   clients   the client registry: per registered connection its         *)
(*             subscribe mode and the channels it is subscribed to         *)
(*   pubsubChannels  per channel the connections that are fan-out targets  *)
(*   rd        per connection its reader: where it is (pc: new before the  *)
(*             acceptor has registered it, read, send), the length n of    *)
(*             its last read, the number seq of that read, and the frames  *)
(*             it has read so far                                          *)
(*   buf       per connection the bytes of the buffer of its reader        *)
(*   msg       nil, or the message the consumer has received and not yet   *)
(*             processed: the connection, the length and the number        *)
(*   out       per connection the writes made to it, each with the message *)
(*             (connection and number) it was made for and its place (at)  *)
(*             among the writes of the consumer                            *)
(*   served    per connection the bytes the consumer decoded for each of   *)
(*             its messages processed so far                               *)
(*   done      messenger.done is closed                                    *)
(*   closed    the tickers whose closer was called                         *)
(*   consumer  where handleRequests is: in its select, or past the break   *)
(*             of the case of done                                         *)
(***************************************************************************)
VARIABLES keyspace, now, pending, last, expirer, panicked, rdb, saver, restored,
          clients, pubsubChannels, rd, buf, msg, out, served, done, closed, consumer,
          tree

vars == <<keyspace, now, pending, last, expirer, panicked, rdb, saver, restored,
          clients, pubsubChannels, rd, buf, msg, out, served, done, closed, consumer,
          tree>>

stopVars == <<done, closed, consumer>>

treeVars == <<tree>>

snapshotVars == <<rdb, saver, restored>>

serverVars == <<clients, pubsubChannels, rd, buf, msg, out, served>>

Conns == {"c1", "c2", "c3"}

\* the server before any connection is accepted
ServerIdle ==
    /\ clients = EmptyMap
    /\ pubsubChannels = EmptyMap
    /\ rd = [c \in Conns |-> [pc |-> "new", n |-> 0, seq |-> 0, frames |-> << >>]]
    /\ buf = [c \in Conns |-> << >>]
    /\ msg = Nil
    /\ out = [c \in Conns |-> << >>]
    /\ served = [c \in Conns |-> << >>]
    /\ done = FALSE
    /\ closed = {}
    /\ consumer = "select"

\* bounds of the model: the clock stops at MaxNowSeconds, no command moves a
\* deadline past MaxDeadlineSeconds, no write command runs once the counter
\* has reached MaxMods
MaxNowSeconds == 2

MaxDeadlineSeconds == 3

MaxMods == 4

MaxListLen == 2

MaxSetSize == 2

NumExpirers == 1

TickMs == MillisPerSecond

\* the runs of SaveAfterNChanges that may be going on at once
NumSavers == 2

SaverRuns == 1..NumSavers

SaverIdle == [pc |-> "idle", atRead |-> 0, off |-> 0, failed |-> FALSE]

\* the inputs of the commands
Keys == {<<"a">>}

StrVals == {<<"7">>, <<"x">>}

ListVals == {<<"x">>, <<"y">>}

Scores == {<<"1">>, <<"2">>}

Members == {<<"m">>}

Expiries == {Nil, Some(<<1, MillisPerSecond>>)}

Seconds == {1}

Runners == 1..NumExpirers

NoCommand == [cmd |-> "", args |-> << >>, r |-> << >>, err |-> Nil]

Done(cmd, args, res) == [cmd |-> cmd, args |-> args, r |-> res.r, err |-> res.err]

Init ==
    /\ keyspace = newKeyspace
    /\ now = 0
    /\ pending = Nil
    /\ last = NoCommand
    /\ expirer = [r \in Runners |-> Nil]
    /\ panicked = FALSE
    /\ rdb = << >>
    /\ saver = [s \in SaverRuns |-> SaverIdle]
    /\ restored = Nil
    /\ tree = NewRbtree
    /\ ServerIdle

\* the consumer is between two commands and the process is alive
Ready == ~panicked /\ pending = Nil

\* a write command may run: the counter is below its cap
Room == keyspace.modifications < MaxMods

\* the consumer runs a command that is one critical section
Finish(cmd, args, res) ==
    /\ \E made \in {res} :
          /\ keyspace' = made.ks
          /\ last' = Done(cmd, args, made)
          /\ panicked' = made.panic
    /\ UNCHANGED <<now, pending, expirer>> /\ UNCHANGED <<snapshotVars, serverVars, stopVars, treeVars>>

Tick ==
    /\ ~panicked
    /\ now + TickMs <= MaxNowSeconds * MillisPerSecond
    /\ now' = now + TickMs
    /\ UNCHANGED <<keyspace, pending, last, expirer, panicked>> /\ UNCHANGED <<snapshotVars, serverVars, stopVars, treeVars>>

ExpiryArgs(exp) ==
    IF exp = Nil THEN << >>
    ELSE IF exp[1][2] = MillisPerSecond THEN <<<<"e", "x">>, FormatInt(exp[1][1])>>
    ELSE <<<<"P", "X">>, FormatInt(exp[1][1])>>

CmdSet(k, v, exp) ==
    /\ Ready /\ Room
    /\ LET args == <<k, v>> \o ExpiryArgs(exp)
       IN  Finish("SET", args, processSet(args, keyspace, now))

\* GET, first critical section
CmdGetLookup(k) ==
    /\ Ready
    /\ LET ke == GetLookup(keyspace, k)
       IN  IF ke = Nil
           THEN /\ last' = Done("GET", <<k>>, CmdOk(keyspace, GetReply(KeyResultNone)))
                /\ UNCHANGED <<keyspace, now, pending, expirer, panicked>> /\ UNCHANGED <<snapshotVars, serverVars, stopVars, treeVars>>
           ELSE /\ pending' = Some([key |-> k, ke |-> ke[1]])
                /\ UNCHANGED <<keyspace, now, last, expirer, panicked>> /\ UNCHANGED <<snapshotVars, serverVars, stopVars, treeVars>>

\* GET, the rest: the lazy deletion or the read of the value
CmdGetResolve ==
    /\ ~panicked /\ pending # Nil
    /\ LET p == pending[1]
           g == GetResolve(keyspace, p.key, p.ke, now)
       IN  /\ keyspace' = g.ks
           /\ last' = Done("GET", <<p.key>>, CmdOk(g.ks, GetReply(g.kr)))
    /\ pending' = Nil
    /\ UNCHANGED <<now, expirer, panicked>> /\ UNCHANGED <<snapshotVars, serverVars, stopVars, treeVars>>

CmdExpire(k, d) ==
    /\ Ready /\ Room
    /\ Has(keyspace.keys, k) /\ keyspace.keys[k].expires # Nil
          => keyspace.keys[k].expires[1] + d * MillisPerSecond
                <= MaxDeadlineSeconds * MillisPerSecond
    /\ LET args == <<k, FormatInt(d)>>
       IN  Finish("EXPIRE", args, processExpire(args, keyspace, now))

CmdExpireAt(k, t) ==
    /\ Ready /\ Room
    /\ LET args == <<k, FormatInt(t)>>
       IN  Finish("EXPIREAT", args, processExpireAt(args, keyspace))

CmdExists(ks) ==
    /\ Ready
    /\ Finish("EXISTS", ks, processExists(ks, keyspace))

CmdDel(ks) ==
    /\ Ready /\ keyspace.modifications + Len(ks) <= MaxMods
    /\ Finish("DEL", ks, processDelete(ks, keyspace))

CmdIncr(k) ==
    /\ Ready /\ Room
    /\ Finish("INCR", <<k>>, processIncrement(<<k>>, keyspace))

CmdDecr(k) ==
    /\ Ready /\ Room
    /\ Finish("DECR", <<k>>, processDecrement(<<k>>, keyspace))

ListRoom(k, vs) ==
    Has(keyspace.listMap, k) => Len(keyspace.listMap[k]) + Len(vs) <= MaxListLen

CmdRPush(k, vs) ==
    /\ Ready /\ Room /\ ListRoom(k, vs)
    /\ Finish("RPUSH", <<k>> \o vs, processRPush(<<k>> \o vs, keyspace))

CmdLPush(k, vs) ==
    /\ Ready /\ Room /\ ListRoom(k, vs)
    /\ Finish("LPUSH", <<k>> \o vs, processLPush(<<k>> \o vs, keyspace))

CmdZAdd(k, score, member) ==
    /\ Ready /\ Room
    /\ Has(keyspace.keys, k) /\ Has(keyspace.sortedSetMap, k)
          => TreeSize(keyspace.sortedSetMap[k]) < MaxSetSize
    /\ LET args == <<k, score, member>>
       IN  Finish("ZADD", args, processZAdd(args, keyspace))

CmdZRange(k, start, stop) ==
    /\ Ready
    /\ LET args == <<k, FormatInt(start), FormatInt(stop)>>
       IN  Finish("ZRANGE", args, processZRange(args, keyspace))

\* CheckAndExpireKeys, first critical section: the keys that are expired now
ExpirerScan(r) ==
    /\ ~panicked /\ expirer[r] = Nil
    /\ LET keys == {k \in DOMAIN keyspace.keys : CheckIsExpired(now, keyspace.keys[k])}
       IN  /\ keys # {}
           /\ expirer' = [expirer EXCEPT ![r] = Some(keys)]
    /\ UNCHANGED <<keyspace, now, pending, last, panicked>> /\ UNCHANGED <<snapshotVars, serverVars, stopVars, treeVars>>

\* CheckAndExpireKeys, second critical section: BulkDelete of those keys
ExpirerDelete(r) ==
    /\ ~panicked /\ expirer[r] # Nil
    /\ keyspace' = BulkDelete(keyspace, SeqOfSet(expirer[r][1])).ks
    /\ expirer' = [expirer EXCEPT ![r] = Nil]
    /\ UNCHANGED <<now, pending, last, panicked>> /\ UNCHANGED <<snapshotVars, serverVars, stopVars, treeVars>>

Consumer ==
    \/ \E k \in Keys, v \in StrVals, exp \in Expiries : CmdSet(k, v, exp)
    \/ \E k \in Keys : CmdGetLookup(k)
    \/ CmdGetResolve
    \/ \E k \in Keys, d \in Seconds : CmdExpire(k, d)
    \/ \E k \in Keys, t \in Seconds : CmdExpireAt(k, t)
    \/ \E ks \in SeqsUpTo(Keys, 2) \ {<< >>} : CmdExists(ks)
    \/ \E ks \in SeqsUpTo(Keys, 2) \ {<< >>} : CmdDel(ks)
    \/ \E k \in Keys : CmdIncr(k)
    \/ \E k \in Keys : CmdDecr(k)
    \/ \E k \in Keys, vs \in SeqsUpTo(ListVals, 2) : CmdRPush(k, vs)
    \/ \E k \in Keys, vs \in SeqsUpTo(ListVals, 2) : CmdLPush(k, vs)
    \/ \E k \in Keys, sc \in Scores, m \in Members : CmdZAdd(k, sc, m)
    \/ \E k \in Keys, start \in 0..1, stop \in {0 - 1, 1, 2} : CmdZRange(k, start, stop)

Expirer == \E r \in Runners : ExpirerScan(r) \/ ExpirerDelete(r)

Next == Tick \/ Consumer \/ Expirer

Spec == Init /\ [][Next]_vars

(***************************************************************************)
(* Properties of the keyspace engine, checked under Spec.                  *)
(***************************************************************************)
GroupMaps(ks) ==
    [g \in {"string", "list", "sorted-set"} |->
        IF g = "string" THEN DOMAIN ks.stringMap
        ELSE IF g = "list" THEN DOMAIN ks.listMap
        ELSE DOMAIN ks.sortedSetMap]

\* the groups whose map holds the key k
HeldBy(ks, k) == {g \in DOMAIN GroupMaps(ks) : k \in GroupMaps(ks)[g]}

\* C1: every key of the tag map is held by exactly one of the three group
\* maps, the one its group tag names.
C1_TagNamesTheOneGroupMap ==
    \A k \in DOMAIN keyspace.keys : HeldBy(keyspace, k) = {keyspace.keys[k].group}

\* C2: in a step that removes a key from the tag map or changes its group,
\* the old value goes too: afterwards no group map holds the key except the
\* one of its new tag, and none if the key was removed.
C2_RemovalDropsOldValue ==
    [][\A k \in DOMAIN keyspace.keys :
          IF k \notin DOMAIN keyspace'.keys
          THEN HeldBy(keyspace', k) = {}
          ELSE keyspace'.keys[k].group # keyspace.keys[k].group
                  => HeldBy(keyspace', k) \subseteq {keyspace'.keys[k].group}]_vars

IsErrorReply(l) == l.err # Nil \/ (l.r # << >> /\ l.r[1] = "-")

\* a step in which the consumer finishes one of the write commands
WriteCommandStep ==
    \/ \E k \in Keys, v \in StrVals, exp \in Expiries : CmdSet(k, v, exp)
    \/ \E k \in Keys, d \in Seconds : CmdExpire(k, d)
    \/ \E k \in Keys, t \in Seconds : CmdExpireAt(k, t)
    \/ \E k \in Keys : CmdIncr(k) \/ CmdDecr(k)
    \/ \E k \in Keys, vs \in SeqsUpTo(ListVals, 2) : CmdRPush(k, vs) \/ CmdLPush(k, vs)
    \/ \E k \in Keys, sc \in Scores, m \in Members : CmdZAdd(k, sc, m)

\* the command finished last succeeded as a write: no error, and for EXPIRE
\* and EXPIREAT the answer :1
Succeeded(l) ==
    /\ ~IsErrorReply(l)
    /\ l.cmd \in {"EXPIRE", "EXPIREAT"} => l.r = SerializeInteger(1)

\* C3: every successful write command (SET, EXPIRE, EXPIREAT, INCR, DECR,
\* RPUSH, LPUSH, ZADD) increases the modification counter by exactly one,
\* whether it updates the key or creates it.
C3_WriteCountsOnce ==
    [][WriteCommandStep /\ Succeeded(last')
          => keyspace'.modifications = keyspace.modifications + 1]_vars

\* C10: a GET that finds the tag it looked up still in place answers, when the
\* deadline is strictly before now, with the null bulk string after removing
\* the tag and the value and counting one modification (so EXISTS answers :0
\* afterwards); when the deadline has not passed it answers with the value
\* and changes nothing.
C10_GetLazyExpiry ==
    [][(CmdGetResolve /\ Has(keyspace.keys, pending[1].key)
                      /\ keyspace.keys[pending[1].key] = pending[1].ke)
          => LET k == pending[1].key
                 ke == pending[1].ke
             IN  IF ke.expires # Nil /\ ke.expires[1] < now
                 THEN /\ last'.r = NIL_BULK_STRING
                      /\ k \notin DOMAIN keyspace'.keys
                      /\ HeldBy(keyspace', k) = {}
                      /\ keyspace'.modifications = keyspace.modifications + 1
                      /\ processExists(<<k>>, keyspace').r = SerializeInteger(0)
                 ELSE /\ keyspace' = keyspace
                      /\ ke.group = "string"
                            => last'.r = SerializeBulkString(keyspace.stringMap[k])]_vars

\* C19: for every non-empty key k and value v, SET k v answers +OK and a GET
\* k that follows it answers with the bulk string v, whatever k held before
\* (nothing, a string, a list, a sorted set).
C19_SetThenGet ==
    [][/\ (\E k \in Keys, v \in StrVals : CmdSet(k, v, Nil))
            => (last'.r = OK_SIMPLE_STRING /\ last'.err = Nil)
       /\ (/\ last.cmd = "SET" /\ Len(last.args) = 2 /\ ~IsErrorReply(last)
           /\ last'.cmd = "GET" /\ last'.args[1] = last.args[1])
            => last'.r = SerializeBulkString(last.args[2])]_vars

\* C20: EXPIRE k d on an existing key answers :1 and sets the deadline to
\* now + d seconds if the key had no expiry and to its previous deadline + d
\* seconds if it had one, and changes nothing else of the key; on a missing
\* key it answers :0 and leaves the keyspace unchanged.
C20_ExpireAddsToDeadline ==
    [][\A k \in Keys, d \in Seconds :
          CmdExpire(k, d) =>
            IF k \in DOMAIN keyspace.keys
            THEN LET old == keyspace.keys[k].expires
                 IN  /\ last'.r = <<":", "1", CR, LF>> /\ last'.err = Nil
                     /\ DOMAIN keyspace'.keys = DOMAIN keyspace.keys
                     /\ keyspace'.keys[k].group = keyspace.keys[k].group
                     /\ keyspace'.keys[k].expires =
                            <<(IF old = Nil THEN now ELSE old[1]) + d * 1000>>
                     /\ keyspace'.stringMap = keyspace.stringMap
                     /\ keyspace'.listMap = keyspace.listMap
                     /\ keyspace'.sortedSetMap = keyspace.sortedSetMap
            ELSE /\ last'.r = <<":", "0", CR, LF>> /\ last'.err = Nil
                 /\ keyspace' = keyspace]_vars

\* an EXPIRE has moved a deadline the key already had
C20_Witness ==
    /\ last.cmd = "EXPIRE" /\ last.r = <<":", "1", CR, LF>>
    /\ \E k \in DOMAIN keyspace.keys :
          /\ k = last.args[1]
          /\ keyspace.keys[k].expires # Nil
          /\ keyspace.keys[k].expires[1] > now + 1000

\* C21: EXPIREAT k T on an existing key answers :1 and makes the deadline
\* exactly the instant T (unix seconds), whatever expiry the key had before,
\* and changes nothing else of the key; on a missing key it answers :0 and
\* leaves the keyspace unchanged.
C21_ExpireAtReplacesDeadline ==
    [][\A k \in Keys, t \in Seconds :
          CmdExpireAt(k, t) =>
            IF k \in DOMAIN keyspace.keys
            THEN /\ last'.r = <<":", "1", CR, LF>> /\ last'.err = Nil
                 /\ DOMAIN keyspace'.keys = DOMAIN keyspace.keys
                 /\ keyspace'.keys[k].group = keyspace.keys[k].group
                 /\ keyspace'.keys[k].expires = <<t * 1000>>
                 /\ keyspace'.stringMap = keyspace.stringMap
                 /\ keyspace'.listMap = keyspace.listMap
                 /\ keyspace'.sortedSetMap = keyspace.sortedSetMap
            ELSE /\ last'.r = <<":", "0", CR, LF>> /\ last'.err = Nil
                 /\ keyspace' = keyspace]_vars

\* an EXPIREAT has put the deadline of a key at an instant that is past
C21_Witness ==
    /\ last.cmd = "EXPIREAT" /\ last.r = <<":", "1", CR, LF>>
    /\ \E k \in DOMAIN keyspace.keys :
          /\ k = last.args[1]
          /\ keyspace.keys[k].expires = <<1000>>
          /\ now > 1000

\* a step in which the consumer finishes a GET of key k
GetFinishes(k) == CmdGetLookup(k) \/ (CmdGetResolve /\ pending[1].key = k)

\* what a GET leaves of a key: its tag, its list and its expiry
GetLeaves(k) ==
    k \in DOMAIN keyspace.keys
        => /\ k \in DOMAIN keyspace'.keys
           /\ keyspace'.keys[k] = keyspace.keys[k]
           /\ Has(keyspace.listMap, k)
                => (Has(keyspace'.listMap, k) /\ keyspace'.listMap[k] = keyspace.listMap[k])

\* C24 as stated: for every key k and value v, after RPUSH k v a GET k
\* answers with the null bulk string, and the GET leaves the tag of the key,
\* its list and its expiry unchanged.
C24_GetAfterRPush ==
    [][\A k \in Keys :
          (GetFinishes(k) /\ last'.cmd = "GET"
             /\ last.cmd = "RPUSH" /\ Len(last.args) >= 2 /\ last.args[1] = k)
            => (last'.r = <<"$", "-", "1", CR, LF>> /\ GetLeaves(k))]_vars

\* C24, amended: after an RPUSH k v that answered with the length of the
\* list, a GET k answers with the null bulk string, and the GET leaves the
\* tag of the key, its list and its expiry unchanged unless the deadline of
\* the key has passed (then the GET removes the key).
C24_GetAfterRPushDone ==
    [][\A k \in Keys :
          (GetFinishes(k) /\ last'.cmd = "GET"
             /\ last.cmd = "RPUSH" /\ Len(last.args) >= 2 /\ last.args[1] = k
             /\ ~IsErrorReply(last))
            => /\ last'.r = <<"$", "-", "1", CR, LF>>
               /\ (k \in DOMAIN keyspace.keys /\ ~CheckIsExpired(now, keyspace.keys[k]))
                    => GetLeaves(k)]_vars

\* a GET of a list key has answered with the null bulk string and the list
\* is there
C24_Witness ==
    /\ last.cmd = "GET" /\ last.r = <<"$", "-", "1", CR, LF>>
    /\ Has(keyspace.keys, last.args[1])
    /\ keyspace.keys[last.args[1]].group = "list"
    /\ Has(keyspace.listMap, last.args[1])
    /\ keyspace.listMap[last.args[1]] # << >>

(***************************************************************************)
(* The commands on several keys: DEL and EXISTS with up to MaxBulkArgs     *)
(* arguments over two keys that hold strings, lists and sorted sets, with  *)
(* and without expiry.                                                     *)
(***************************************************************************)
BulkKeys == {<<"a">>, <<"b">>}

MaxBulkArgs == 3

BulkArgs == SeqsUpTo(BulkKeys, MaxBulkArgs) \ {<< >>}

BulkConsumer ==
    \/ \E k \in BulkKeys, exp \in Expiries : CmdSet(k, <<"7">>, exp)
    \/ \E k \in BulkKeys : CmdRPush(k, <<<<"x">>>>)
    \/ \E k \in BulkKeys : CmdZAdd(k, <<"1">>, <<"m">>)
    \/ \E ks \in BulkArgs : CmdDel(ks)
    \/ \E ks \in BulkArgs : CmdExists(ks)

BulkNext == Tick \/ BulkConsumer

BulkSpec == Init /\ [][BulkNext]_vars

\* the keys a command names
Named(ks) == {ks[i] : i \in 1..Len(ks)}

\* the integer n as the reply :n
Counted(n) == <<":", <<"0", "1", "2", "3", "4">>[n + 1], CR, LF>>

\* what a keyspace holds for a key: its tag, its expiry and its values
Holding(st, k) ==
    <<st.keys[k],
      IF Has(st.stringMap, k) THEN Some(st.stringMap[k]) ELSE Nil,
      IF Has(st.listMap, k) THEN Some(st.listMap[k]) ELSE Nil,
      IF Has(st.sortedSetMap, k) THEN Some(st.sortedSetMap[k]) ELSE Nil>>

\* C22: DEL k1 .. kn answers with the number of distinct keys that existed
\* and were removed, a key named several times counting once and a missing
\* key zero; the named keys are gone and the keys that are not named keep
\* their tag, value and expiry.
C22_DelCountsDistinctKeys ==
    [][\A ks \in BulkArgs :
          CmdDel(ks) =>
            /\ last'.r = Counted(Cardinality(Named(ks) \cap DOMAIN keyspace.keys))
            /\ last'.err = Nil
            /\ DOMAIN keyspace'.keys = DOMAIN keyspace.keys \ Named(ks)
            /\ \A k \in DOMAIN keyspace'.keys : Holding(keyspace', k) = Holding(keyspace, k)]_vars

\* a DEL that named one existing key twice has answered :1 and the other key
\* is there
C22_Witness ==
    /\ last.cmd = "DEL" /\ last.args = <<<<"a">>, <<"a">>>> /\ last.r = Counted(1)
    /\ <<"b">> \in DOMAIN keyspace.keys

\* C23: EXISTS k1 .. kn answers with the number of argument positions that
\* name an existing key, an existing key named twice counting two and a
\* missing key zero; the keyspace and the modification counter are
\* unchanged.
C23_ExistsCountsPositions ==
    [][\A ks \in BulkArgs :
          CmdExists(ks) =>
            /\ last'.r = Counted(Cardinality({i \in 1..Len(ks) : ks[i] \in DOMAIN keyspace.keys}))
            /\ last'.err = Nil
            /\ keyspace' = keyspace]_vars

\* an EXISTS that named an existing key twice and a missing key has
\* answered :2
C23_Witness ==
    /\ last.cmd = "EXISTS" /\ last.args = <<<<"a">>, <<"b">>, <<"a">>>>
    /\ last.r = Counted(2)
    /\ DOMAIN keyspace.keys = {<<"a">>}

\* the values of a sequence, last first
Reversed(vs) == [i \in 1..Len(vs) |-> vs[Len(vs) + 1 - i]]

\* C25: LPUSH k v1 .. vn prepends each element in turn: afterwards the list
\* at k, read head to tail, is vn, .., v1 followed by the previous contents
\* of the list (nothing if k did not exist), and the answer is the new
\* length of the list.
C25_LPushPrependsInTurn ==
    [][\A k \in Keys, vs \in SeqsUpTo(ListVals, 2) :
          (CmdLPush(k, vs) /\ ~IsErrorReply(last'))
            => LET before == IF Has(keyspace.keys, k) THEN ToSlice(keyspace.listMap[k]) ELSE << >>
                   after == Reversed(vs) \o before
               IN  /\ Has(keyspace'.listMap, k)
                   /\ ToSlice(keyspace'.listMap[k]) = after
                   /\ last'.r = Counted(Len(after))]_vars

(***************************************************************************)
(* INCR and DECR on their own: a string key set to values of IncrVals, the *)
(* ends of the range of int among them, with and without expiry.           *)
(***************************************************************************)
IncrVals == {<<"7">>, <<"-", "1">>, <<"x">>, MaxInt64Digits, <<"-">> \o MinInt64Digits}

IncrConsumer ==
    \/ \E k \in Keys, v \in IncrVals, exp \in Expiries : CmdSet(k, v, exp)
    \/ \E k \in Keys : CmdIncr(k)
    \/ \E k \in Keys : CmdDecr(k)

IncrNext == Tick \/ IncrConsumer

IncrSpec == Init /\ [][IncrNext]_vars

\* s is the decimal string of an integer: an optional minus sign and digits
IsDecimal(s) ==
    /\ s # << >>
    /\ AllDigits(IF s[1] = "-" THEN Tail(s) ELSE s)

\* the integer a decimal string stands for, and the integers next to it
DecimalValue(s) == Int64(s[1] = "-", StripZeros(IF s[1] = "-" THEN Tail(s) ELSE s))

PlusOne(v) == IF v.neg THEN Int64(TRUE, MagPred(v.mag)) ELSE Int64(FALSE, MagSucc(v.mag))

MinusOne(v) ==
    IF ~v.neg /\ v.mag # <<"0">> THEN Int64(FALSE, MagPred(v.mag))
    ELSE Int64(TRUE, MagSucc(v.mag))

HoldsDecimal(k) ==
    /\ Has(keyspace.keys, k) /\ keyspace.keys[k].group = "string"
    /\ Has(keyspace.stringMap, k) /\ IsDecimal(keyspace.stringMap[k])

\* the key k holds the decimal string of v afterwards, with the tag and the
\* expiry it had, and the answer is that integer
StoresAndAnswers(k, v) ==
    /\ keyspace'.stringMap[k] = FormatInt64(v)
    /\ keyspace'.keys[k] = keyspace.keys[k]
    /\ last'.r = <<":">> \o FormatInt64(v) \o CRLF
    /\ last'.err = Nil

\* C31: INCR (DECR) on a key that holds the decimal string of an integer n
\* stores the decimal string of n + 1 (n - 1), keeps the expiry of the key and
\* answers with the stored value; on an absent key it creates a string key
\* without expiry that holds "0" and answers :0.
C31_IncrStoresNextInteger ==
    [][\A k \in Keys :
          /\ (CmdIncr(k) /\ HoldsDecimal(k))
                => StoresAndAnswers(k, PlusOne(DecimalValue(keyspace.stringMap[k])))
          /\ (CmdDecr(k) /\ HoldsDecimal(k))
                => StoresAndAnswers(k, MinusOne(DecimalValue(keyspace.stringMap[k])))
          /\ ((CmdIncr(k) \/ CmdDecr(k)) /\ ~Has(keyspace.keys, k))
                => /\ keyspace'.keys = MapPut(keyspace.keys, k, keyspaceEntry("string", Nil))
                   /\ keyspace'.stringMap = MapPut(keyspace.stringMap, k, <<"0">>)
                   /\ last'.r = <<":", "0", CR, LF>>]_vars

\* the same for the integers whose neighbour is in the range of int
IncrWithinRange ==
    [][\A k \in Keys :
          /\ (CmdIncr(k) /\ HoldsDecimal(k) /\ keyspace.stringMap[k] # MaxInt64Digits)
                => StoresAndAnswers(k, PlusOne(DecimalValue(keyspace.stringMap[k])))
          /\ (CmdDecr(k) /\ HoldsDecimal(k)
                         /\ keyspace.stringMap[k] # <<"-">> \o MinInt64Digits)
                => StoresAndAnswers(k, MinusOne(DecimalValue(keyspace.stringMap[k])))]_vars

(***************************************************************************)
(* Requests that fail: the consumer runs whole requests, the ones that set *)
(* a key up as a string, a list or a sorted set and the ones of            *)
(* FailingRequests, which are answered with an error in some states.       *)
(***************************************************************************)
SetupRequests ==
    {<<<<"s", "e", "t">>, <<"a">>, <<"7">>>>,
     <<<<"s", "e", "t">>, <<"a">>, <<"x">>>>,
     <<<<"s", "e", "t">>, <<"a">>, <<"7">>, <<"e", "x">>, <<"1">>>>,
     <<<<"r", "p", "u", "s", "h">>, <<"a">>, <<"x">>>>,
     <<<<"z", "a", "d", "d">>, <<"a">>, <<"1">>, <<"m">>>>,
     <<<<"d", "e", "l">>, <<"a">>>>}

FailingRequests ==
    {<<<<"i", "n", "c", "r">>, <<"a">>>>,
     <<<<"d", "e", "c", "r">>, <<"a">>>>,
     <<<<"l", "p", "u", "s", "h">>, <<"a">>, <<"x">>>>,
     <<<<"z", "a", "d", "d">>, <<"a">>, <<"x">>, <<"m">>>>,
     <<<<"z", "a", "d", "d">>, <<"a">>, <<"1">>, <<"m">>, <<"2">>>>,
     <<<<"z", "a", "d", "d">>, <<"a">>, <<"1">>, <<"m">>, <<"x">>, <<"n">>>>,
     <<<<"f", "o", "o">>, <<"a">>>>,
     <<<<"s", "e", "t">>, <<"a">>>>,
     <<<<"g", "e", "t">>>>,
     <<<<"i", "n", "c", "r">>, <<"a">>, <<"b">>>>,
     <<<<"e", "x", "p", "i", "r", "e">>, <<"a">>, <<"x">>>>,
     <<<<"z", "a", "d", "d">>, <<"a">>>>,
     <<<<"s", "e", "t">>, <<"a">>, <<"7">>, <<"e", "x">>, <<"x">>>>,
     <<<<"s", "e", "t">>, <<"a">>, <<"7">>, <<"z", "z">>, <<"1">>>>}

\* Process on the words of a request, Parse first
RunRequest(words, ks, t) ==
    LET parsed == Parse(Some(words))
    IN  IF parsed.kind = "err" THEN CmdErr(ks, parsed.err)
        ELSE ProcessKeyspaceCommand(parsed.cmd, parsed.args, ks, t)

\* the consumer processes the request
CmdRequest(words) ==
    /\ Ready /\ Room
    /\ Finish("REQUEST", words, RunRequest(words, keyspace, now))

ErrNext == Tick \/ \E words \in SetupRequests \cup FailingRequests : CmdRequest(words)

ErrSpec == Init /\ [][ErrNext]_vars

\* C32: a command that is answered with an error leaves the tag map, the
\* group maps, the expiries and the modification counter unchanged: INCR and
\* DECR on a key that is no string or holds no integer, RPUSH and LPUSH on a
\* key that is no list, ZADD on a key of another group, with a score that does
\* not parse or with an odd number of score and member arguments, an unknown
\* command and a wrong number of arguments.
C32_ErrorLeavesStateUnchanged ==
    [][\A words \in SetupRequests \cup FailingRequests :
          (CmdRequest(words) /\ IsErrorReply(last')) => keyspace' = keyspace]_vars

\* ZADD a 1 m x n was answered with an error when a was absent, after writes
\* that counted, and a is still absent
C32_Witness ==
    /\ last.cmd = "REQUEST"
    /\ last.args = <<<<"z", "a", "d", "d">>, <<"a">>, <<"1">>, <<"m">>, <<"x">>, <<"n">>>>
    /\ IsErrorReply(last)
    /\ ~Has(keyspace.keys, <<"a">>)
    /\ keyspace.modifications > 0

\* INCR a was answered with an error on a list
IncrFailsOnList ==
    /\ last.cmd = "REQUEST" /\ last.args = <<<<"i", "n", "c", "r">>, <<"a">>>>
    /\ IsErrorReply(last)
    /\ Has(keyspace.listMap, <<"a">>)

(***************************************************************************)
(* SET on its own: a key written with EX, with PX and without expiry, over *)
(* a string or a list that may have a deadline already.                    *)
(***************************************************************************)
SetExpiries ==
    {Nil, Some(<<1, MillisPerSecond>>), Some(<<2, MillisPerSecond>>), Some(<<1500, 1>>),
     Some(<<0 - 1, MillisPerSecond>>)}

SetConsumer ==
    \/ \E k \in Keys, v \in StrVals, exp \in SetExpiries : CmdSet(k, v, exp)
    \/ \E k \in Keys, d \in Seconds : CmdExpire(k, d)
    \/ \E k \in Keys : CmdRPush(k, <<<<"x">>>>)

SetNext == Tick \/ SetConsumer

SetSpec == Init /\ [][SetNext]_vars

\* the deadline SET key value [EX|PX n] asks for at the instant t
AskedDeadline(exp, t) ==
    IF exp = Nil THEN Nil
    ELSE IF exp[1][2] = MillisPerSecond THEN Some(t + exp[1][1] * 1000)
    ELSE Some(t + exp[1][1])

\* C38: SET fully determines the expiry of the key it writes: with EX n the
\* deadline is now + n seconds, with PX n it is now + n milliseconds, with
\* neither the key has no expiry, whatever expiry the key had before
C38_SetDeterminesExpiry ==
    [][\A k \in Keys, v \in StrVals, exp \in SetExpiries :
          CmdSet(k, v, exp) =>
              /\ last'.r = OK_SIMPLE_STRING
              /\ keyspace'.keys[k] = keyspaceEntry("string", AskedDeadline(exp, now))]_vars

\* a SET with PX 1500 was served after the clock had moved and after an
\* earlier write
C38_Witness ==
    /\ last.cmd = "SET"
    /\ now > 0
    /\ \E k \in Keys :
          /\ last.args[1] = k
          /\ \/ /\ Len(last.args) = 4 /\ last.args[3] = <<"P", "X">>
                /\ keyspace.keys[k].expires = Some(now + 1500)
                /\ keyspace.modifications >= 2

(***************************************************************************)
(* One sorted set on its own: ZADD of members that share scores, and       *)
(* ZRANGE with every start and stop of RangeIndexes.                       *)
(***************************************************************************)
ZSetKey == <<"a">>

ZSetMembers == {<<"a">>, <<"b">>}

RangeIndexes == (0 - 2)..2

ZSetConsumer ==
    \/ \E sc \in Scores, m \in ZSetMembers : CmdZAdd(ZSetKey, sc, m)
    \/ \E start \in RangeIndexes, stop \in RangeIndexes : CmdZRange(ZSetKey, start, stop)

ZSetSpec == Init /\ [][ZSetConsumer]_vars

\* the pairs of score and member a sorted set holds, in the order of the tree
PairsOf(ks, k) ==
    IF ~Has(ks.sortedSetMap, k) THEN << >>
    ELSE LET n == ks.sortedSetMap[k].nodes
         IN  Concat([i \in 1..Len(n) |->
                        [j \in 1..Len(n[i].entries) |-> <<n[i].key, n[i].entries[j]>>]])

MembersOf(ks, k) == [i \in 1..Len(PairsOf(ks, k)) |-> PairsOf(ks, k)[i][2]]

\* the pair p put behind the first before pairs of s
PutBehind(s, p, before) == SubSeq(s, 1, before) \o <<p>> \o SubSeq(s, before + 1, Len(s))

\* the pair goes behind every pair of a smaller or the same score
InOrderOfArrival(s, p) ==
    PutBehind(s, p, Cardinality({i \in 1..Len(s) : s[i][1] <= p[1]}))

\* the pair goes behind every pair of a smaller score and every pair of the
\* same score whose member is not greater
InOrderOfMember(s, p) ==
    PutBehind(s, p, Cardinality({i \in 1..Len(s) :
                                    \/ s[i][1] < p[1]
                                    \/ s[i][1] = p[1] /\ ~StrLess(p[2], s[i][2])}))

\* ZRANGE k 0 -1 answers with the members of k in the order of the tree
FullRangeAnswers ==
    CmdZRange(ZSetKey, 0, 0 - 1) /\ Has(keyspace.sortedSetMap, ZSetKey) =>
        /\ last'.r = SerializeArray(MembersOf(keyspace, ZSetKey))
        /\ last'.err = Nil /\ ~panicked'
        /\ keyspace' = keyspace

\* C26: ZRANGE k 0 -1 returns every member added to k in ascending order of
\* score, members of equal score in the order in which they were added.
C26_TiesInInsertionOrder ==
    [][/\ \A sc \in Scores, m \in ZSetMembers :
             CmdZAdd(ZSetKey, sc, m) =>
                 PairsOf(keyspace', ZSetKey)
                     = InOrderOfArrival(PairsOf(keyspace, ZSetKey), <<ParseFloat(sc).val, m>>)
       /\ FullRangeAnswers]_vars

\* C26 as the program has it: ZRANGE k 0 -1 returns every member added to k
\* in ascending order of score, members of equal score in ascending bytewise
\* order of the member whatever the order in which they were added.
C26_TiesInMemberOrder ==
    [][/\ \A sc \in Scores, m \in ZSetMembers :
             CmdZAdd(ZSetKey, sc, m) =>
                 PairsOf(keyspace', ZSetKey)
                     = InOrderOfMember(PairsOf(keyspace, ZSetKey), <<ParseFloat(sc).val, m>>)
       /\ FullRangeAnswers]_vars

\* b was added before a under the same score, and ZRANGE a 0 -1 answered a, b
C26_Witness ==
    /\ last.cmd = "ZRANGE" /\ last.args = <<ZSetKey, <<"0">>, <<"-", "1">>>>
    /\ last.r = SerializeArray(<<<<"a">>, <<"b">>>>)
    /\ PairsOf(keyspace, ZSetKey) = <<<<1, <<"a">>>>, <<1, <<"b">>>>>>

\* the index i of a request on a set of n members
Normalized(i, n) == IF i < 0 THEN n + i ELSE i

\* C27: ZRANGE k start stop returns the members at the positions start to
\* stop, both included and counted from 0, a negative index i standing for
\* size + i; the result is empty when start is greater than stop after this.
C27_RangeIsInclusive ==
    [][\A start \in RangeIndexes, stop \in RangeIndexes :
          LET all == MembersOf(keyspace, ZSetKey)
              from == Normalized(start, Len(all))
              to == Normalized(stop, Len(all))
          IN  /\ CmdZRange(ZSetKey, start, stop)
              /\ Has(keyspace.sortedSetMap, ZSetKey)
              /\ from \in 0..(Len(all) - 1) /\ to \in 0..(Len(all) - 1)
              => /\ ~panicked'
                 /\ last'.r = SerializeArray(IF from > to THEN << >>
                                             ELSE SubSeq(all, from + 1, to + 1))]_vars

(***************************************************************************)
(* The tree on its own: up to MaxTreePuts calls of Put with keys of        *)
(* TreeKeys, a key the tree holds included.                                *)
(***************************************************************************)
MaxTreePuts == 4

TreeKeys == 1..3

TreeVals == {<<"a">>, <<"b">>}

PutInTree(key, val) ==
    /\ tree.size < MaxTreePuts
    /\ tree' = Put(tree, key, val)
    /\ UNCHANGED <<keyspace, now, pending, last, expirer, panicked>>
    /\ UNCHANGED <<snapshotVars, serverVars, stopVars>>

TreeNext == \E key \in TreeKeys, val \in TreeVals : PutInTree(key, val)

TreeSpec == Init /\ [][TreeNext]_vars

\* the numbers of black nodes on the paths from the node n down to nil
RECURSIVE BlackCounts(_, _)
BlackCounts(h, n) ==
    IF n = NilNode THEN {0}
    ELSE {c + (IF h[n].color = BLACK THEN 1 ELSE 0) :
             c \in BlackCounts(h, h[n].left) \cup BlackCounts(h, h[n].right)}

RootIsBlack(t) == t.root # NilNode => t.heap[t.root].color = BLACK

NoRedRed(t) ==
    \A n \in 1..Len(t.heap) :
        isRed(t.heap, n) => ~isRed(t.heap, t.heap[n].left) /\ ~isRed(t.heap, t.heap[n].right)

EqualBlackHeight(t) == Cardinality(BlackCounts(t.heap, t.root)) = 1

\* C28: after any sequence of puts, puts of a score the tree holds included,
\* the root is black, no red node has a red child and every path from the
\* root down to nil crosses the same number of black nodes.
C28_RedBlackInvariants ==
    RootIsBlack(tree) /\ NoRedRed(tree) /\ EqualBlackHeight(tree)

\* Put keeps the order of the keys and the buckets whatever the colours are
PutKeepsOrder ==
    [][\A key \in TreeKeys, val \in TreeVals :
          PutInTree(key, val) =>
            /\ inOrderTraversal(tree'.heap, tree'.root)
                 = TreePut([nodes |-> inOrderTraversal(tree.heap, tree.root),
                            size |-> tree.size], key, val).nodes
            /\ tree'.size = tree.size + 1]_vars

\* as long as every key is put once the tree is a red-black tree
RedBlackWithoutRepeats ==
    Len(tree.heap) = tree.size => C28_RedBlackInvariants

(***************************************************************************)
(* The tree under Put and Remove: keys of RemoveKeys are put, a key the    *)
(* tree holds included, and removed, a key the tree does not hold          *)
(* included, while Size() is below MaxTreeSize.  The nodes nothing points  *)
(* to are collected after each call and the nodes left are numbered in     *)
(* pre-order: the places of the nodes in the heap carry no meaning.        *)
(***************************************************************************)
MaxTreeSize == 5

RECURSIVE preOrder(_, _)
preOrder(h, n) ==
    IF n = NilNode THEN << >>
    ELSE <<n>> \o preOrder(h, h[n].left) \o preOrder(h, h[n].right)

PlaceIn(order, n) ==
    IF n = NilNode THEN NilNode ELSE CHOOSE j \in 1..Len(order) : order[j] = n

Collected(t) ==
    LET order == preOrder(t.heap, t.root)
    IN  [root |-> PlaceIn(order, t.root),
         size |-> t.size,
         heap |-> [j \in 1..Len(order) |->
                      [t.heap[order[j]] EXCEPT !.parent = PlaceIn(order, @),
                                               !.left = PlaceIn(order, @),
                                               !.right = PlaceIn(order, @)]]]

RemoveKeys == 1..5

RemoveVals == {<<"a">>}

PutInSmallTree(key, val) ==
    /\ ~panicked
    /\ tree.size < MaxTreeSize
    /\ \E t \in {Put(tree, key, val)} : tree' = Collected(t)
    /\ UNCHANGED <<keyspace, now, pending, last, expirer, panicked>>
    /\ UNCHANGED <<snapshotVars, serverVars, stopVars>>

RemoveFromTree(key) ==
    /\ ~panicked
    /\ \E res \in {Remove(tree, key)} :
           /\ panicked' = res.panic
           /\ tree' = IF res.panic THEN tree ELSE Collected(res.t)
    /\ UNCHANGED <<keyspace, now, pending, last, expirer>>
    /\ UNCHANGED <<snapshotVars, serverVars, stopVars>>

RemoveNext ==
    \/ \E key \in RemoveKeys, val \in RemoveVals : PutInSmallTree(key, val)
    \/ \E key \in RemoveKeys : RemoveFromTree(key)

RemoveSpec == Init /\ [][RemoveNext]_vars

\* the (key, value) pairs the tree stores, read off the nodes under the root
StoredPairs(t) ==
    LET n == inOrderTraversal(t.heap, t.root)
    IN  Concat([i \in 1..Len(n) |->
                   [j \in 1..Len(n[i].entries) |-> <<n[i].key, n[i].entries[j]>>]])

\* the keys of a sequence of pairs
KeysOfPairs(pairs) == [i \in 1..Len(pairs) |-> pairs[i][1]]

\* C39: after any sequence of Put and Remove, GetKeySet lists the keys in
\* ascending order with one entry for each stored (key, value) pair, and
\* Size() is the number of stored pairs
C39_KeySetAndSizeMatchPairs ==
    /\ Size(tree) = Len(StoredPairs(tree))
    /\ tree.root # NilNode =>
          /\ ~GetKeySet(tree).panic
          /\ GetKeySet(tree).keys = KeysOfPairs(StoredPairs(tree))
          /\ \A i \in 1..(Len(GetKeySet(tree).keys) - 1) :
                GetKeySet(tree).keys[i] <= GetKeySet(tree).keys[i + 1]

\* the values the tree stores under a key
ValuesUnder(t, key) ==
    LET under == SelectSeq(StoredPairs(t), LAMBDA p : p[1] = key)
    IN  [i \in 1..Len(under) |-> under[i][2]]

\* the pairs under the root follow the calls: Put adds its pair to those of
\* its key, Remove takes away the pairs of its key and no other, and Remove
\* of a key the tree does not hold changes nothing
PairsFollowCalls ==
    [][/\ \A key \in RemoveKeys, val \in RemoveVals :
             PutInSmallTree(key, val) =>
                 /\ Len(StoredPairs(tree')) = Len(StoredPairs(tree)) + 1
                 /\ SelectSeq(StoredPairs(tree'), LAMBDA p : p[1] # key)
                       = SelectSeq(StoredPairs(tree), LAMBDA p : p[1] # key)
                 /\ ValuesUnder(tree', key) = SortStrs(Append(ValuesUnder(tree, key), val))
       /\ \A key \in RemoveKeys :
             (RemoveFromTree(key) /\ ~panicked') =>
                 /\ StoredPairs(tree') = SelectSeq(StoredPairs(tree), LAMBDA p : p[1] # key)
                 /\ get(tree.heap, tree.root, key) = NilNode => tree' = tree]_vars

\* without a Put of a key the tree holds, the size, the key set and the
\* colours are right after every Put and Remove, and no Remove panics
RemoveWithoutRepeats ==
    (\A i \in 1..Len(StoredPairs(tree)) : \A j \in 1..Len(StoredPairs(tree)) :
         StoredPairs(tree)[i][1] = StoredPairs(tree)[j][1] => i = j)
    /\ Size(tree) = Len(StoredPairs(tree))
       => /\ ~panicked
          /\ C39_KeySetAndSizeMatchPairs

\* the deadline of the key k has passed and the key is still in the keyspace
Overdue(k) == Has(keyspace.keys, k) /\ CheckIsExpired(now, keyspace.keys[k])

\* C33: lazy expiration is triggered by the next access of any kind to an
\* expired key: EXISTS, INCR and DECR, RPUSH and LPUSH, EXPIRE and ZRANGE on a
\* key whose deadline has passed treat the key as absent and delete it, whether
\* the expirer has run since or not.
C33_AnyAccessExpires ==
    [][\A k \in Keys :
          Overdue(k) =>
            /\ CmdExists(<<k>>)
                  => last'.r = SerializeInteger(0) /\ ~Has(keyspace'.keys, k)
            /\ (\E d \in Seconds : CmdExpire(k, d))
                  => last'.r = SerializeInteger(0) /\ ~Has(keyspace'.keys, k)
            /\ (\E start \in 0..1, stop \in {0 - 1, 1, 2} : CmdZRange(k, start, stop))
                  => ~Has(keyspace'.keys, k)
            /\ (CmdIncr(k) \/ CmdDecr(k))
                  => /\ keyspace'.keys[k] = keyspaceEntry("string", Nil)
                     /\ keyspace'.stringMap[k] = <<"0">>
            /\ (\E vs \in SeqsUpTo(ListVals, 2) : CmdRPush(k, vs) \/ CmdLPush(k, vs))
                  => /\ keyspace'.keys[k] = keyspaceEntry("list", Nil)
                     /\ Len(keyspace'.listMap[k]) <= 2]_vars

\* C34: the expirer deletes a key only if its deadline is past at the moment
\* of the deletion; a key rewritten by SET, or whose deadline EXPIRE or
\* EXPIREAT moved into the future, between the scan and the bulk delete stays
C34_ExpirerDeletesOnlyOverdue ==
    [][\A r \in Runners :
          ExpirerDelete(r) =>
              \A k \in DOMAIN keyspace.keys :
                  ~Has(keyspace'.keys, k) => CheckIsExpired(now, keyspace.keys[k])]_vars

\* C35: a GET answers a non-null bulk string only if that string is the value
\* stored under the key when the answer is made; a GET whose key was removed
\* between its lookup and its read answers the null bulk string, never an
\* empty string
C35_GetAnswersStoredValue ==
    [][CmdGetResolve =>
          LET k == pending[1].key
          IN  last'.r # NIL_BULK_STRING
                 => /\ Has(keyspace.stringMap, k)
                    /\ last'.r = SerializeBulkString(keyspace.stringMap[k])]_vars

\* the steps that remove keys: a DEL, the bulk delete of an expirer pass and
\* the second half of a GET
RemovalStep ==
    \/ \E ks \in SeqsUpTo(Keys, 2) \ {<< >>} : CmdDel(ks)
    \/ \E r \in Runners : ExpirerDelete(r)
    \/ CmdGetResolve

\* C30: the modification counter increases by exactly one for each key that
\* is actually removed, in a DEL, in an expirer pass and in the lazy expiry of
\* a GET, and by one only when the lazy expiry of a GET and the bulk delete of
\* the expirer meet on the same expired key.
C30_OneCountPerRemovedKey ==
    [][RemovalStep =>
          keyspace'.modifications
              = keyspace.modifications
                  + Cardinality(DOMAIN keyspace.keys \ DOMAIN keyspace'.keys)]_vars

(***************************************************************************)
(* The background expirer under fair scheduling: the ticker of             *)
(* SetupKeyExpirer fires for ever and every run of CheckAndExpireKeys it   *)
(* starts gets the locks it asks for.  The consumer runs the commands that *)
(* create keys, set, move and clear deadlines, and remove keys.            *)
(***************************************************************************)
LiveConsumer ==
    \/ \E k \in Keys, v \in StrVals, exp \in Expiries : CmdSet(k, v, exp)
    \/ \E k \in Keys : CmdGetLookup(k)
    \/ CmdGetResolve
    \/ \E k \in Keys, d \in Seconds : CmdExpire(k, d)
    \/ \E k \in Keys, t \in Seconds : CmdExpireAt(k, t)
    \/ \E k \in Keys : CmdDel(<<k>>)
    \/ \E k \in Keys, vs \in SeqsUpTo(ListVals, 1) : CmdRPush(k, vs)
    \/ \E k \in Keys, sc \in Scores, m \in Members : CmdZAdd(k, sc, m)

LiveNext == Tick \/ LiveConsumer \/ Expirer

LiveSpec ==
    /\ Init
    /\ [][LiveNext]_vars
    /\ \A r \in Runners : WF_vars(ExpirerScan(r)) /\ WF_vars(ExpirerDelete(r))

\* the key is in the tag map with a deadline strictly before now
DeadlinePassed(k) ==
    /\ k \in DOMAIN keyspace.keys
    /\ keyspace.keys[k].expires # Nil
    /\ keyspace.keys[k].expires[1] < now

\* C9: under fair scheduling of the expirer, a key whose deadline has passed
\* is eventually absent from the tag map, unless a later command changes its
\* deadline so that it is no longer passed.
C9_ExpiredKeyEventuallyAbsent ==
    \A k \in Keys :
        DeadlinePassed(k) ~> (k \notin DOMAIN keyspace.keys \/ ~DeadlinePassed(k))

\* the last command finished is a SET with a deadline, the consumer has begun
\* nothing since, and the key is gone: the expirer removed it
C9_Witness ==
    /\ last.cmd = "SET" /\ Len(last.args) = 4
    /\ pending = Nil
    /\ last.args[1] \notin DOMAIN keyspace.keys
    /\ \A r \in Runners : expirer[r] = Nil

(***************************************************************************)
(* The snapshotter: the runs of SaveAfterNChanges, each started by a tick  *)
(* of a saver, next to the consumer.  Save is two critical sections: the   *)
(* loops that write the frames under the read lock, and ResetCounter under *)
(* the write lock.  A run holds its own file handle: os.Create truncates   *)
(* the one file redis-go.rdb and the writes of the run go to the offset of *)
(* its handle.                                                             *)
(***************************************************************************)
\* the changes of the (seconds, changes) pair the saver was configured with
SaveChanges == 1

\* a write of data through a handle whose offset is off
WriteAt(file, off, data) ==
    SubSeq(file, 1, off) \o data \o SubSeq(file, off + Len(data) + 1, Len(file))

\* SaveAfterNChanges reads the counter and finds it at the threshold
SaveCheck(s) ==
    /\ ~panicked /\ saver[s].pc \in {"idle", "done"}
    /\ keyspace.modifications >= SaveChanges
    /\ saver' = [saver EXCEPT ![s] = [SaverIdle EXCEPT !.pc = "create"]]
    /\ UNCHANGED <<keyspace, now, pending, last, expirer, panicked, rdb, restored>>
    /\ UNCHANGED <<serverVars, stopVars, treeVars>>

\* os.Create truncates the file; when it fails SaveAfterNChanges returns
SaveCreate(s, ok) ==
    /\ ~panicked /\ saver[s].pc = "create"
    /\ rdb' = IF ok THEN << >> ELSE rdb
    /\ saver' = [saver EXCEPT ![s] = IF ok THEN [@ EXCEPT !.pc = "write"]
                                     ELSE [@ EXCEPT !.pc = "done", !.failed = TRUE]]
    /\ UNCHANGED <<keyspace, now, pending, last, expirer, panicked, restored>>
    /\ UNCHANGED <<serverVars, stopVars, treeVars>>

\* Save, the loops under the read lock; the results of fmt.Fprint are not
\* looked at: when the writes fail (no byte reaches the file) Save goes on
SaveWrite(s, ok) ==
    /\ ~panicked /\ saver[s].pc = "write"
    /\ \E strOrder \in Orders(DOMAIN keyspace.stringMap),
          listOrder \in Orders(DOMAIN keyspace.listMap) :
            LET data == SaveBytes(keyspace, strOrder, listOrder)
            IN  /\ rdb' = IF ok THEN WriteAt(rdb, saver[s].off, data) ELSE rdb
                /\ saver' = [saver EXCEPT ![s] =
                                [pc |-> "reset", atRead |-> keyspace.modifications,
                                 off |-> IF ok THEN @.off + Len(data) ELSE @.off,
                                 failed |-> ~ok]]
    /\ UNCHANGED <<keyspace, now, pending, last, expirer, panicked, restored>>
    /\ UNCHANGED <<serverVars, stopVars, treeVars>>

\* Save, the call of ResetCounter, after which Save returns and the file is
\* closed
SaveReset(s) ==
    /\ ~panicked /\ saver[s].pc = "reset"
    /\ keyspace' = ResetCounter(keyspace)
    /\ saver' = [saver EXCEPT ![s].pc = "done"]
    /\ UNCHANGED <<now, pending, last, expirer, panicked, rdb, restored>>
    /\ UNCHANGED <<serverVars, stopVars, treeVars>>

\* one run at a time, on a disk that does not fail
Saver == SaveCheck(1) \/ SaveCreate(1, TRUE) \/ SaveWrite(1, TRUE) \/ SaveReset(1)

SaveConsumer ==
    \/ \E k \in Keys, v \in StrVals, exp \in Expiries : CmdSet(k, v, exp)
    \/ \E k \in Keys : CmdDel(<<k>>)
    \/ \E k \in Keys, vs \in SeqsUpTo(ListVals, 1) : CmdRPush(k, vs)

SaveNext == Tick \/ SaveConsumer \/ Saver

SaveSpec == Init /\ [][SaveNext]_vars

\* C5: when Save returns, the modification counter equals the number of
\* writes applied after the snapshot contents were read: the reset takes away
\* what the counter held at the read and nothing else.
C5_ResetKeepsLaterWrites ==
    [][SaveReset(1) => keyspace'.modifications = keyspace.modifications - saver[1].atRead]_vars

(***************************************************************************)
(* The tickers (RunEveryNSeconds): the key expirer and the snapshot        *)
(* savers, each with the closer its setup returned.  A closer closes the   *)
(* done channel of its ticker; the loop of the ticker selects between a    *)
(* tick, on which it starts the runner, and done, on which it breaks out   *)
(* of the select only.                                                     *)
(***************************************************************************)
Tickers == {"expirer", "savers"}

\* the closer of a ticker is called: close(done)
CloseTicker(t) ==
    /\ ~panicked /\ t \notin closed
    /\ closed' = closed \cup {t}
    /\ UNCHANGED <<keyspace, now, pending, last, expirer, panicked, snapshotVars, treeVars,
                   serverVars, done, consumer>>

TickerConsumer == \E k \in Keys, v \in StrVals, exp \in Expiries : CmdSet(k, v, exp)

TickerNext ==
    \/ Tick
    \/ TickerConsumer
    \/ Expirer
    \/ Saver
    \/ \E t \in Tickers : CloseTicker(t)

TickerSpec == Init /\ [][TickerNext]_vars

\* C15: after the closer of a ticker is called the ticker is stopped: its
\* loop has ended and its runner is never started again, neither
\* CheckAndExpireKeys for the expirer nor SaveAfterNChanges for the savers.
C15_ClosedTickerStartsNoRunner ==
    [][/\ "expirer" \in closed =>
            \A r \in Runners : expirer[r] = Nil => expirer'[r] = Nil
       /\ "savers" \in closed =>
            \A s \in SaverRuns : saver[s].pc \in {"idle", "done"} => saver'[s].pc \in {"idle", "done"}]_vars

(***************************************************************************)
(* The savers on a disk that may fail: the runs of SaveAfterNChanges side  *)
(* by side, started by the ticks of the savers, next to the consumer.      *)
(***************************************************************************)
DiskSaver(s) ==
    \/ SaveCheck(s)
    \/ \E ok \in BOOLEAN : SaveCreate(s, ok)
    \/ \E ok \in BOOLEAN : SaveWrite(s, ok)
    \/ SaveReset(s)

DiskConsumer ==
    \/ \E k \in Keys, v \in StrVals : CmdSet(k, v, Nil)
    \/ \E k \in Keys : CmdDel(<<k>>)

DiskNext ==
    \/ DiskConsumer
    \/ \E s \in SaverRuns : DiskSaver(s)

DiskSpec == Init /\ [][DiskNext]_vars

\* the runs that hold the file open: past os.Create, before the return of
\* SaveAfterNChanges closes it
HoldsFile(s) == saver[s].pc \in {"write", "reset"}

\* C16: the snapshot file is overwritten atomically per snapshot: the
\* sequence create/truncate, write, close of one run on redis-go.rdb is
\* never interleaved with that of another run, of another saver or of
\* another tick of the same saver.
C16_OneRunHoldsTheFile ==
    \A s, t \in SaverRuns : (HoldsFile(s) /\ HoldsFile(t)) => s = t

\* C17: if a snapshot attempt fails with a disk I/O error, the file cannot
\* be created or a write fails, the counter keeps its value: no step of a
\* run the disk has failed changes the counter.
C17_FailedSnapshotKeepsCounter ==
    [][\A s \in SaverRuns :
          (saver'[s] # saver[s] /\ (saver[s].failed \/ saver'[s].failed))
              => keyspace'.modifications = keyspace.modifications]_vars

\* a command that removes a key and takes one from the counter
\* C18: between two consecutive states the counter never decreases, except
\* in the step where Save resets it to zero.
C18_CounterOnlyDropsAtReset ==
    [][keyspace'.modifications < keyspace.modifications
          => /\ keyspace'.modifications = 0
             /\ \E s \in SaverRuns : saver[s].pc = "reset" /\ saver'[s].pc = "done"]_vars

\* a reset has taken the counter down, and a write has counted since
C18_Witness ==
    /\ \E s \in SaverRuns : saver[s].pc = "done" /\ ~saver[s].failed /\ saver[s].atRead > 0
    /\ keyspace.modifications > 0

(***************************************************************************)
(* Save and Load back to back: a process holding string and list keys      *)
(* saves, and a process started on the file loads it.                      *)
(***************************************************************************)
RtKeys == {<<"a">>, <<"b">>}

RtStrVals == {<<"x">>, << >>, <<"x", LF, "*">>}

RtLists == {<< >>, <<<<"x">>>>, <<<<"x">>, <<"y">>>>}

\* deadlines, in milliseconds: none, within a second, on a second
RtExpires == {Nil, Some(MillisPerSecond + 500), Some(2 * MillisPerSecond)}

RtKeyStates ==
    {[group |-> "none", str |-> << >>, list |-> << >>, expires |-> Nil]}
    \cup {[group |-> "string", str |-> v, list |-> << >>, expires |-> e] :
            v \in RtStrVals, e \in RtExpires}
    \cup {[group |-> "list", str |-> << >>, list |-> l, expires |-> e] :
            l \in RtLists, e \in RtExpires}

\* the keyspace that holds the keys as d describes them
RtKeyspace(d) ==
    LET present == {k \in DOMAIN d : d[k].group # "none"}
    IN  [keys |-> [k \in present |-> keyspaceEntry(d[k].group, d[k].expires)],
         stringMap |-> [k \in {k \in present : d[k].group = "string"} |-> d[k].str],
         listMap |-> [k \in {k \in present : d[k].group = "list"} |-> d[k].list],
         sortedSetMap |-> EmptyMap,
         modifications |-> Cardinality(present)]

RtInit ==
    /\ \E d \in [RtKeys -> RtKeyStates] : keyspace = RtKeyspace(d)
    /\ now = 0
    /\ pending = Nil
    /\ last = NoCommand
    /\ expirer = [r \in Runners |-> Nil]
    /\ panicked = FALSE
    /\ rdb = << >>
    /\ saver = [s \in SaverRuns |-> SaverIdle]
    /\ restored = Nil
    /\ tree = NewRbtree
    /\ ServerIdle

\* LoadStateFromSnapshot in a process started after the save
LoadSnapshot ==
    /\ saver[1].pc = "done" /\ restored = Nil
    /\ restored' = Some(Load(newKeyspace, rdb, now))
    /\ UNCHANGED <<keyspace, now, pending, last, expirer, panicked, rdb, saver>>
    /\ UNCHANGED <<serverVars, stopVars, treeVars>>

RtNext == Saver \/ LoadSnapshot

RoundTripSpec == RtInit /\ [][RtNext]_vars

\* the deadline a snapshot carries: whole seconds
Truncated(expires) ==
    IF expires = Nil THEN Nil ELSE Some(Unix(expires[1]) * MillisPerSecond)

\* C4: for a keyspace of string keys and list keys, with and without expiry,
\* Save followed by Load into a fresh state ends without a failure and gives
\* every key with the same group, the same value and the deadline truncated
\* to whole seconds, and no other key.
C4_SaveLoadRoundTrip ==
    restored # Nil =>
        LET got == restored[1].ks
        IN  /\ ~restored[1].panic
            /\ DOMAIN got.keys = DOMAIN keyspace.keys
            /\ got.stringMap = keyspace.stringMap
            /\ got.listMap = keyspace.listMap
            /\ got.sortedSetMap = EmptyMap
            /\ \A k \in DOMAIN keyspace.keys :
                  /\ got.keys[k].group = keyspace.keys[k].group
                  /\ got.keys[k].expires = Truncated(keyspace.keys[k].expires)

(***************************************************************************)
(* The server loop: acceptor, one reader per connection, the unbuffered    *)
(* channel and the single consumer (handleRequests).  The application a    *)
(* command works on is the record of keyspace, clients and pubsubChannels. *)
(***************************************************************************)
App(ks, cl, ch) == [ks |-> ks, clients |-> cl, pubsubChannels |-> ch]

\* SerializeArray of mixed items: a string is a bulk string, an int an integer
StringItem(v) == [type |-> "string", v |-> v]

IntItem(n) == [type |-> "int", v |-> n]

SerializeItems(items) ==
    <<"*">> \o FormatInt(Len(items)) \o CRLF
        \o Concat([i \in 1..Len(items) |->
                IF items[i].type = "int" THEN SerializeInteger(items[i].v)
                ELSE SerializeBulkString(items[i].v)])

AddClient(cl, conn) == MapPut(cl, conn, [isOnSubscribeMode |-> FALSE, subscribedTo |-> {}])

GetClient(cl, conn) == IF Has(cl, conn) THEN Some(cl[conn]) ELSE Nil

SubscribeConnection(ch, cName, conn) ==
    MapPut(ch, cName, (IF Has(ch, cName) THEN ch[cName] ELSE {}) \cup {conn})

SubscribeTo(cl, conn, cName) ==
    [cl EXCEPT ![conn] = [isOnSubscribeMode |-> TRUE,
                          subscribedTo |-> @.subscribedTo \cup {cName}]]

GetConnectionsPerChannelExcludingConn(ch, channel, conn) ==
    IF Has(ch, channel) THEN ch[channel] \ {conn} ELSE {}

\* the result of Process: the application afterwards, what Process itself
\* wrote to the sender (side), the message and its targets, the Go error
Processed(app, side, message, targets, err) ==
    [app |-> app, side |-> side, message |-> message, targets |-> targets,
     err |-> err, panic |-> FALSE]

ProcessPanic(app) ==
    [app |-> app, side |-> << >>, message |-> << >>, targets |-> {},
     err |-> Nil, panic |-> TRUE]

\* the loop of processSubscribe counting the channels from 0
RECURSIVE SubscribeLoopFromZero(_, _, _, _, _)
SubscribeLoopFromZero(app, args, i, sender, response) ==
    IF i > Len(args) THEN [app |-> app, response |-> response]
    ELSE SubscribeLoopFromZero(
            [app EXCEPT
                !.pubsubChannels = SubscribeConnection(@, args[i], sender),
                !.clients = SubscribeTo(@, sender, args[i])],
            args, i + 1, sender,
            response \o SerializeItems(<<StringItem(<<"s", "u", "b", "s", "c", "r", "i", "b", "e">>), StringItem(args[i]),
                                         IntItem(i - 1)>>))

RECURSIVE SubscribeLoop(_, _, _, _, _)
SubscribeLoop(app, args, i, sender, response) ==
    IF i > Len(args) THEN [app |-> app, response |-> response]
    ELSE SubscribeLoop(
            [app EXCEPT
                !.pubsubChannels = SubscribeConnection(@, args[i], sender),
                !.clients = SubscribeTo(@, sender, args[i])],
            args, i + 1, sender,
            response \o SerializeItems(<<StringItem(<<"s", "u", "b", "s", "c", "r", "i", "b", "e">>), StringItem(args[i]),
                                         IntItem(i)>>))

processSubscribe(args, sender, app) ==
    IF Len(args) < 1 THEN [app |-> app, r |-> << >>, err |-> Some(wrongNumOfArgsErr)]
    ELSE IF GetClient(app.clients, sender) = Nil
         THEN [app |-> app, r |-> << >>, err |-> Some(<<"client not found">>)]
    ELSE LET looped == SubscribeLoop(app, args, 1, sender, << >>)
         IN  [app |-> looped.app, r |-> looped.response, err |-> Nil]

processPublish(args, sender, app) ==
    IF Len(args) # 2
    THEN [app |-> app, r |-> << >>, targets |-> {}, err |-> Some(wrongNumOfArgsErr)]
    ELSE LET channel == args[1]
             message == args[2]
             targets == GetConnectionsPerChannelExcludingConn(app.pubsubChannels, channel, sender)
         IN  [app |-> IF targets = {}
                      THEN [app EXCEPT !.pubsubChannels = MapPut(@, channel, {})]
                      ELSE app,
              r |-> SerializeItems(<<StringItem(<<"m", "e", "s", "s", "a", "g", "e">>), StringItem(channel),
                                     StringItem(message)>>),
              targets |-> targets,
              err |-> Nil]

\* Process: Parse, then the switch over the command
Process(processed, sender, app, t) ==
    LET parsed == Parse(processed)
    IN  IF parsed.kind = "panic" THEN ProcessPanic(app)
        ELSE IF parsed.kind = "err"
             THEN Processed(app, << >>, << >>, {sender}, Some(parsed.err))
        ELSE IF parsed.cmd = <<"S", "U", "B", "S", "C", "R", "I", "B", "E">>
             THEN LET sub == processSubscribe(parsed.args, sender, app)
                  IN  Processed(sub.app, << >>, sub.r, {sender}, sub.err)
        ELSE IF parsed.cmd = <<"P", "U", "B", "L", "I", "S", "H">>
             THEN LET pub == processPublish(parsed.args, sender, app)
                  IN  Processed(pub.app, <<SerializeInteger(Cardinality(pub.targets))>>,
                                pub.r, pub.targets, pub.err)
        ELSE LET res == ProcessKeyspaceCommand(parsed.cmd, parsed.args, app.ks, t)
             IN  IF res.panic THEN ProcessPanic(app)
                 ELSE Processed([app EXCEPT !.ks = res.ks], << >>, res.r, {sender}, res.err)

\* ProcessRequest: decode the bytes of the message, then Process
ProcessRequest(raw, sender, app, t) ==
    LET dec == DecodeMessage(raw)
    IN  IF dec.kind = "panic" THEN ProcessPanic(app)
        ELSE IF dec.kind = "err" THEN Processed(app, << >>, << >>, {sender}, Some(dec.err))
        ELSE Process(dec.val, sender, app, t)

\* the frames a client may send
FramePing == <<"*", "1", CR, LF, "$", "4", CR, LF, "p", "i", "n", "g", CR, LF>>

FrameEmptyArray == <<"*", "0", CR, LF>>

FrameNullBulk == <<"$", "-", "1", CR, LF>>

FrameNoData == <<"*", "1", CR, LF, "$", "4", CR, LF>>

FrameShortBulk == <<"$", "5", CR, LF, "a", "b", CR, LF>>

FrameUnknown == <<"*", "1", CR, LF, "$", "3", CR, LF, "f", "o", "o", CR, LF>>

FrameSet == <<"*", "3", CR, LF, "$", "3", CR, LF, "s", "e", "t", CR, LF, "$", "1", CR, LF, "a", CR, LF, "$", "1", CR, LF, "x", CR, LF>>

FrameGet == <<"*", "2", CR, LF, "$", "3", CR, LF, "g", "e", "t", CR, LF, "$", "1", CR, LF, "a", CR, LF>>

FrameZAdd == <<"*", "4", CR, LF, "$", "4", CR, LF, "z", "a", "d", "d", CR, LF, "$", "1", CR, LF, "a", CR, LF, "$", "1", CR, LF, "1", CR, LF, "$", "1", CR, LF, "m", CR, LF>>

FrameZRangeAll == <<"*", "4", CR, LF, "$", "6", CR, LF, "z", "r", "a", "n", "g", "e", CR, LF, "$", "1", CR, LF, "a", CR, LF, "$", "1", CR, LF, "0", CR, LF, "$", "2", CR, LF, "-", "1", CR, LF>>

FrameZRangeBeyond == <<"*", "4", CR, LF, "$", "6", CR, LF, "z", "r", "a", "n", "g", "e", CR, LF, "$", "1", CR, LF, "a", CR, LF, "$", "1", CR, LF, "0", CR, LF, "$", "1", CR, LF, "5", CR, LF>>

FrameZRangeBackwards == <<"*", "4", CR, LF, "$", "6", CR, LF, "z", "r", "a", "n", "g", "e", CR, LF, "$", "1", CR, LF, "a", CR, LF, "$", "1", CR, LF, "1", CR, LF, "$", "1", CR, LF, "0", CR, LF>>

FrameSubscribe == <<"*", "2", CR, LF, "$", "9", CR, LF, "s", "u", "b", "s", "c", "r", "i", "b", "e", CR, LF, "$", "1", CR, LF, "c", CR, LF>>

FramePublish == <<"*", "3", CR, LF, "$", "7", CR, LF, "p", "u", "b", "l", "i", "s", "h", CR, LF, "$", "1", CR, LF, "c", CR, LF, "$", "1", CR, LF, "m", CR, LF>>

FramePublishNoMessage == <<"*", "2", CR, LF, "$", "7", CR, LF, "p", "u", "b", "l", "i", "s", "h", CR, LF, "$", "1", CR, LF, "c", CR, LF>>

Frames ==
    {FramePing, FrameEmptyArray, FrameNullBulk, FrameNoData, FrameShortBulk,
     FrameUnknown, FrameSet, FrameGet, FrameZAdd, FrameZRangeAll, FrameZRangeBeyond,
     FrameZRangeBackwards, FrameSubscribe, FramePublish, FramePublishNoMessage}

\* the number of frames the clients send in all
MaxFrames == 2

ServerInit ==
    /\ keyspace = newKeyspace
    /\ now = 0
    /\ pending = Nil
    /\ last = NoCommand
    /\ expirer = [r \in Runners |-> Nil]
    /\ panicked = FALSE
    /\ rdb = << >>
    /\ saver = [s \in SaverRuns |-> SaverIdle]
    /\ restored = Nil
    /\ tree = NewRbtree
    /\ ServerIdle

\* Listen: server.Accept returns the connection and the acceptor calls
\* AddClient
Accept(c) ==
    /\ ~panicked /\ rd[c].pc = "new"
    /\ rd' = [rd EXCEPT ![c].pc = "adding"]
    /\ UNCHANGED <<keyspace, now, pending, last, expirer, panicked, snapshotVars, stopVars, treeVars,
                   clients, pubsubChannels, buf, msg, out, served>>

\* Listen: AddClient writes the entry of the connection into app.clients,
\* holding no lock, and the acceptor starts the reader of the connection
Register(c) ==
    /\ ~panicked /\ rd[c].pc = "adding"
    /\ clients' = AddClient(clients, c)
    /\ rd' = [rd EXCEPT ![c].pc = "read"]
    /\ UNCHANGED <<keyspace, now, pending, last, expirer, panicked, snapshotVars, stopVars, treeVars,
                   pubsubChannels, buf, msg, out, served>>

\* reader.Read(buf): the first n bytes of the buffer become the frame
ReadInto(b, frame) == frame \o SubSeq(b, Len(frame) + 1, Len(b))

FramesRead == SumSeq([i \in 1..Cardinality(Conns) |-> rd[SeqOfSet(Conns)[i]].seq])

\* HandleConnection: the reader of c reads the frame a client sent; the model
\* lets the readers read at most budget frames in all
ReadWithin(c, frame, budget) ==
    /\ ~panicked /\ rd[c].pc = "read"
    /\ FramesRead < budget
    /\ buf' = [buf EXCEPT ![c] = ReadInto(@, frame)]
    /\ rd' = [rd EXCEPT ![c] = [pc |-> "send", n |-> Len(frame), seq |-> @.seq + 1,
                               frames |-> Append(@.frames, frame)]]
    /\ UNCHANGED <<keyspace, now, pending, last, expirer, panicked, snapshotVars, stopVars, treeVars,
                   clients, pubsubChannels, msg, out, served>>

Read(c, frame) == ReadWithin(c, frame, MaxFrames)

\* the reader of c hands Message{raw: buf[:n], conn} to the consumer over the
\* unbuffered channel: the send and the receive are one step.  Each side is
\* in a select with the case of done: the send meets the receive only while
\* one side is parked, and no side parks once done is closed
Receive(c) ==
    /\ ~panicked /\ rd[c].pc = "send" /\ msg = Nil
    /\ ~done /\ consumer = "select"
    /\ msg' = Some([conn |-> c, n |-> rd[c].n, seq |-> rd[c].seq])
    /\ rd' = [rd EXCEPT ![c].pc = "read"]
    /\ UNCHANGED <<keyspace, now, pending, last, expirer, panicked, snapshotVars, stopVars, treeVars,
                   clients, pubsubChannels, buf, out, served>>

\* the function Cancel returns is called: messenger.done is closed
Cancel ==
    /\ ~panicked /\ ~done
    /\ done' = TRUE
    /\ UNCHANGED <<keyspace, now, pending, last, expirer, panicked, snapshotVars, treeVars,
                   clients, pubsubChannels, rd, buf, msg, out, served, closed, consumer>>

\* handleRequests: with done closed the select of the consumer takes the
\* case of done, and its break leaves the select
CaseDone ==
    /\ ~panicked /\ done /\ msg = Nil /\ consumer = "select"
    /\ consumer' = "break"
    /\ UNCHANGED <<keyspace, now, pending, last, expirer, panicked, snapshotVars, treeVars,
                   serverVars, done, closed>>

\* handleRequests: past the select the for loop begins again
LoopAgain ==
    /\ ~panicked /\ consumer = "break"
    /\ consumer' = "select"
    /\ UNCHANGED <<keyspace, now, pending, last, expirer, panicked, snapshotVars, treeVars,
                   serverVars, done, closed>>

\* HandleConnection: with done closed the select of the reader takes the
\* case of done; its break leaves the select, the message is not sent and
\* the reader reads again
Drop(c) ==
    /\ ~panicked /\ rd[c].pc = "send" /\ done
    /\ rd' = [rd EXCEPT ![c].pc = "read"]
    /\ UNCHANGED <<keyspace, now, pending, last, expirer, panicked, snapshotVars,
                   stopVars, treeVars, clients, pubsubChannels, buf, msg, out, served>>

\* the number of writes the consumer has made, to all connections
WritesMade(o) == SumSeq([i \in 1..Cardinality(Conns) |-> Len(o[SeqOfSet(Conns)[i]])])

\* a write of data to a connection comes after the writes made before: the
\* consumer is the only writer, at is the place of the write among its writes
ConnWrite(o, c, w) ==
    [o EXCEPT ![c] = Append(@, [data |-> w.data, by |-> w.by, seq |-> w.seq,
                                at |-> WritesMade(o) + 1])]

RECURSIVE WriteAll(_, _)
WriteAll(o, writes) ==
    IF writes = << >> THEN o
    ELSE WriteAll(ConnWrite(o, Head(writes).to, Head(writes).w), Tail(writes))

\* the bytes of the message the consumer holds: the slice buf[:n] of the
\* buffer of the reader, as the buffer is now
Raw(m) == SubSeq(buf[m.conn], 1, m.n)

\* the writes of a PUBLISH with the writes to the targets put first
WritesTargetsFirst(m, res, order) ==
    LET w(data) == [data |-> data, by |-> m.conn, seq |-> m.seq]
    IN  (IF res.err # Nil
         THEN <<[to |-> m.conn, w |-> w(SerializeSimpleError(res.err[1]))]>>
         ELSE [i \in 1..Len(order) |-> [to |-> order[i], w |-> w(res.message)]])
        \o [i \in 1..Len(res.side) |-> [to |-> m.conn, w |-> w(res.side[i])]]

\* what the consumer writes for a processed request, in order: the writes
\* made inside Process, then the simple error to the sender or the message
\* to the targets
Writes(m, res, order) ==
    LET w(data) == [data |-> data, by |-> m.conn, seq |-> m.seq]
    IN  [i \in 1..Len(res.side) |-> [to |-> m.conn, w |-> w(res.side[i])]]
        \o (IF res.err # Nil
            THEN <<[to |-> m.conn, w |-> w(SerializeSimpleError(res.err[1]))]>>
            ELSE [i \in 1..Len(order) |-> [to |-> order[i], w |-> w(res.message)]])

\* the acceptor is inside AddClient, writing app.clients
AcceptorWritesRegistry == \E c \in Conns : rd[c].pc = "adding"

\* the message the consumer holds is a SUBSCRIBE that reaches GetClient: the
\* consumer reads app.clients and writes the entry of the sender and
\* app.pubsubChannels, holding no lock
ConsumerWritesRegistry ==
    /\ msg # Nil
    /\ LET dec == DecodeMessage(Raw(msg[1]))
       IN  /\ dec.kind = "ok" /\ dec.val # Nil /\ Len(dec.val[1]) >= 2
           /\ ToUpper(dec.val[1][1]) = <<"S", "U", "B", "S", "C", "R", "I", "B", "E">>

\* the outcomes of the unsynchronized accesses to the map app.clients: the
\* Go runtime may stop the process (concurrent map read and map write) or
\* not notice
RegistryRaceStops ==
    IF AcceptorWritesRegistry /\ ConsumerWritesRegistry THEN {FALSE, TRUE} ELSE {FALSE}

\* handleRequests: the consumer processes the message it received and writes
Handle ==
    /\ ~panicked /\ msg # Nil
    /\ \E m \in {msg[1]} :
       \E res \in {ProcessRequest(Raw(m), m.conn, App(keyspace, clients, pubsubChannels), now)} :
           \E stops \in RegistryRaceStops :
           /\ keyspace' = res.app.ks
           /\ clients' = IF stops THEN clients ELSE res.app.clients
           /\ pubsubChannels' = IF stops THEN pubsubChannels ELSE res.app.pubsubChannels
           /\ panicked' = (res.panic \/ stops)
           /\ \E order \in Orders(res.targets) :
                out' = IF res.panic \/ stops THEN out ELSE WriteAll(out, Writes(m, res, order))
           /\ served' = [served EXCEPT ![m.conn] = Append(@, Raw(m))]
    /\ msg' = Nil
    /\ UNCHANGED <<now, pending, last, expirer, snapshotVars, stopVars, treeVars, rd, buf>>

ServerNext ==
    \/ \E c \in Conns : Accept(c)
    \/ \E c \in Conns : Register(c)
    \/ \E c \in Conns, frame \in Frames : Read(c, frame)
    \/ \E c \in Conns : Receive(c)
    \/ Handle

ServerSpec == ServerInit /\ [][ServerNext]_vars

\* the writes made to c for the messages of c itself
OwnWrites(c) == SelectSeq(out[c], LAMBDA w : w.by = c)

\* C6: on one connection the frames the reader read are processed and
\* answered in the order in which they were read: what the consumer has
\* processed for a connection is, frame by frame, the beginning of what the
\* reader of the connection has read, and the answers a connection gets for
\* its own messages come in the order of the messages.
C6_AnsweredInReadOrder ==
    \A c \in Conns :
        /\ Len(served[c]) <= Len(rd[c].frames)
        /\ served[c] = SubSeq(rd[c].frames, 1, Len(served[c]))
        /\ \A i \in 1..Len(OwnWrites(c)) :
              /\ OwnWrites(c)[i].seq <= Len(served[c])
              /\ \A j \in i..Len(OwnWrites(c)) : OwnWrites(c)[i].seq <= OwnWrites(c)[j].seq

\* C36: the bytes the consumer decodes for a message are exactly the bytes the
\* reader read for it: while the consumer holds a message it has not finished,
\* a later read on the same connection does not change the bytes of it
C36_MessageKeepsItsBytes ==
    msg # Nil => Raw(msg[1]) = rd[msg[1].conn].frames[msg[1].seq]

\* C7: no request stops the server: whatever bytes a reader hands over, an
\* empty array, a null bulk string, an array whose last element has no data,
\* a bulk string shorter than its declared length, a ZRANGE out of range or
\* with start after stop, the consumer answers and goes on.
C7_NoRequestStopsTheServer == ~panicked

\* what ProcessRequest gives for the message the consumer holds
HandleResult ==
    ProcessRequest(Raw(msg[1]), msg[1].conn, App(keyspace, clients, pubsubChannels), now)

\* C8: when a request fails in decoding, parsing or execution, the sender
\* gets exactly one write, the simple error, and no other connection gets
\* anything; a failing PUBLISH included.
C8_FailureIsOneErrorToSender ==
    [][(Handle /\ ~HandleResult.panic /\ HandleResult.err # Nil)
          => out' = [out EXCEPT ![msg[1].conn] =
                        Append(@, [data |-> SerializeSimpleError(HandleResult.err[1]),
                                   by |-> msg[1].conn, seq |-> msg[1].seq,
                                   at |-> WritesMade(out) + 1])]]_vars

(***************************************************************************)
(* Publish and subscribe: the server with the clients sending SUBSCRIBE    *)
(* and PUBLISH only, over one channel.                                     *)
(***************************************************************************)
MaxPubSubFrames == 3

PubSubFrames == {FrameSubscribe, FramePublish, FramePing}

PubSubRead(c, frame) == ReadWithin(c, frame, MaxPubSubFrames)

PubSubNext ==
    \/ \E c \in Conns : Accept(c)
    \/ \E c \in Conns : Register(c)
    \/ \E c \in Conns, frame \in PubSubFrames : PubSubRead(c, frame)
    \/ \E c \in Conns : Receive(c)
    \/ Handle

PubSubSpec == ServerInit /\ [][PubSubNext]_vars

\* the request the consumer holds, decoded: the command and its arguments
HeldRequest == DecodeMessage(Raw(msg[1]))

HeldWords == HeldRequest.val[1]

\* the consumer holds PUBLISH channel message
HoldsPublish ==
    /\ msg # Nil
    /\ HeldRequest.kind = "ok" /\ HeldRequest.val # Nil
    /\ Len(HeldWords) = 3
    /\ ToUpper(HeldWords[1]) = <<"P", "U", "B", "L", "I", "S", "H">>

\* the connections that subscribed to the channel
SubscribersOf(channel) ==
    {x \in DOMAIN clients : channel \in clients[x].subscribedTo}

\* the array a subscriber gets for a message published to a channel
PublishedMessage(channel, message) ==
    SerializeItems(<<StringItem(<<"m", "e", "s", "s", "a", "g", "e">>), StringItem(channel),
                     StringItem(message)>>)

\* what was written to a connection, without the places of the writes
Sent(o, x) ==
    [i \in 1..Len(o[x]) |-> [data |-> o[x][i].data, by |-> o[x][i].by, seq |-> o[x][i].seq]]

\* C11: for PUBLISH c m sent by a connection that is not itself subscribed
\* to c, the publisher gets the integer n, the number of connections
\* subscribed to c, each of those n connections gets exactly one array
\* [message, c, m], and a connection not subscribed to c gets nothing.
C11_PublishReachesEverySubscriber ==
    [][(Handle /\ HoldsPublish
          /\ msg[1].conn \notin SubscribersOf(HeldWords[2]))
        => LET p == msg[1].conn
               c == HeldWords[2]
               w(data) == [data |-> data, by |-> p, seq |-> msg[1].seq]
           IN  \A x \in Conns :
                 Sent(out', x) =
                     IF x = p
                     THEN Append(Sent(out, x), w(SerializeInteger(Cardinality(SubscribersOf(c)))))
                     ELSE IF x \in SubscribersOf(c)
                     THEN Append(Sent(out, x), w(PublishedMessage(c, HeldWords[3])))
                     ELSE Sent(out, x)]_vars

\* the connections the channel map lists under a channel
ListedUnder(channels, channel) ==
    IF Has(channels, channel) THEN channels[channel] ELSE {}

\* C37: a PUBLISH changes no subscription, whoever sends it and whoever is
\* subscribed to the channel: every connection listed under a channel before
\* the PUBLISH is listed under it after, no connection is added, and no
\* connection's own set of channels changes
C37_PublishKeepsSubscriptions ==
    [][(Handle /\ HoldsPublish)
        => /\ clients' = clients
           /\ \A ch \in DOMAIN pubsubChannels \cup DOMAIN pubsubChannels' :
                 ListedUnder(pubsubChannels', ch) = ListedUnder(pubsubChannels, ch)]_vars

\* C12: for one PUBLISH the integer reply is written to the publisher before
\* the message is written to any subscriber: every message a connection got
\* from the request of another connection comes after the integer written to
\* that connection for the same request.
C12_IntegerBeforeMessages ==
    \A x \in Conns : \A i \in 1..Len(out[x]) :
        LET e == out[x][i]
        IN  e.by # x =>
              \E j \in 1..Len(out[e.by]) :
                  /\ out[e.by][j].by = e.by /\ out[e.by][j].seq = e.seq
                  /\ Head(out[e.by][j].data) = ":"
                  /\ out[e.by][j].at < e.at

\* two subscribers got the message of one PUBLISH
C12_Witness ==
    \E x, y \in Conns : \E i \in 1..Len(out[x]), j \in 1..Len(out[y]) :
        /\ x # y /\ out[x][i].by \notin {x, y}
        /\ out[y][j].by = out[x][i].by /\ out[y][j].seq = out[x][i].seq

\* C13: the writes to the client registry are synchronized: the acceptor
\* registering a new connection and the consumer handling SUBSCRIBE are never
\* writing the registry at the same time.
C13_RegistryWritesSynchronized ==
    [][(Handle /\ ConsumerWritesRegistry) => ~AcceptorWritesRegistry]_vars

(***************************************************************************)
(* Decoding on its own: a connection sends one array frame, its declared   *)
(* count and the declared lengths of its bulk strings right or wrong, and  *)
(* the consumer decodes it.                                                *)
(***************************************************************************)
MaxDecodeFrames == 1

DecodeCounts == 0..2

DeclaredLengths == 0..1

DecodeData == {<< >>, <<"a">>}

Bulks == [len : DeclaredLengths, data : DecodeData]

\* $<len>\r\n<data>\r\n
BulkFrame(b) == <<"$">> \o FormatInt(b.len) \o CRLF \o b.data \o CRLF

\* *<count>\r\n followed by the bulk strings
ArrayFrame(count, bulks) ==
    <<"*">> \o FormatInt(count) \o CRLF
        \o Concat([i \in 1..Len(bulks) |-> BulkFrame(bulks[i])])

DecodeFrames == {ArrayFrame(count, bulks) : count \in DecodeCounts, bulks \in SeqsUpTo(Bulks, 2)}

DecodeRead(c, frame) == ReadWithin(c, frame, MaxDecodeFrames)

\* the reader of c reads one of the frames, if it is reading and a frame is left
DecodeReads(c) ==
    /\ rd[c].pc = "read" /\ FramesRead < MaxDecodeFrames
    /\ \E frame \in DecodeFrames : DecodeRead(c, frame)

DecodeNext ==
    \/ \E c \in Conns : Accept(c)
    \/ \E c \in Conns : Register(c)
    \/ \E c \in Conns : DecodeReads(c)
    \/ \E c \in Conns : Receive(c)
    \/ Handle

DecodeSpec == ServerInit /\ [][DecodeNext]_vars

\* C40: decoding an array frame with declared count c gives exactly c
\* elements, each the data of one bulk string whose declared length is the
\* length of its data, the empty sequence for count 0; a frame whose number
\* of bulk strings is not c, or in which a declared length is not the length
\* of the data, fails with a decode error
C40_ArrayDecodesToItsElements ==
    [][Handle =>
          \A count \in DecodeCounts, bulks \in SeqsUpTo(Bulks, 2) :
              Raw(msg[1]) = ArrayFrame(count, bulks) =>
                  LET dec == DecodeMessage(Raw(msg[1]))
                  IN  IF /\ Len(bulks) = count
                         /\ \A i \in 1..Len(bulks) : bulks[i].len = Len(bulks[i].data)
                      THEN /\ dec.kind = "ok"
                           /\ dec.val = Some([i \in 1..count |-> bulks[i].data])
                      ELSE dec.kind = "err"]_vars

\* a frame whose count and lengths are right decodes to its elements
WellFormedArrayDecodes ==
    [][Handle =>
          \A count \in DecodeCounts, bulks \in SeqsUpTo(Bulks, 2) :
              (/\ Raw(msg[1]) = ArrayFrame(count, bulks)
               /\ Len(bulks) = count
               /\ \A i \in 1..Len(bulks) : bulks[i].len = Len(bulks[i].data))
                  => LET dec == DecodeMessage(Raw(msg[1]))
                     IN  /\ dec.kind = "ok"
                         /\ dec.val = Some([i \in 1..count |-> bulks[i].data])]_vars

(***************************************************************************)
(* SUBSCRIBE on its own: the clients send SUBSCRIBE with one channel and   *)
(* with two channels.                                                      *)
(***************************************************************************)
FrameSubscribeBoth == <<"*", "3", CR, LF, "$", "9", CR, LF, "s", "u", "b", "s", "c", "r", "i", "b", "e", CR, LF, "$", "1", CR, LF, "c", CR, LF, "$", "1", CR, LF, "d", CR, LF>>

SubscribeFrames == {FrameSubscribe, FrameSubscribeBoth}

SubscribeRead(c, frame) == ReadWithin(c, frame, MaxPubSubFrames)

SubscribeNext ==
    \/ \E c \in Conns : Accept(c)
    \/ \E c \in Conns : Register(c)
    \/ \E c \in Conns, frame \in SubscribeFrames : SubscribeRead(c, frame)
    \/ \E c \in Conns : Receive(c)
    \/ Handle

SubscribeSpec == ServerInit /\ [][SubscribeNext]_vars

\* the consumer holds SUBSCRIBE c1 .. cn
HoldsSubscribe ==
    /\ msg # Nil
    /\ HeldRequest.kind = "ok" /\ HeldRequest.val # Nil
    /\ Len(HeldWords) >= 2
    /\ ToUpper(HeldWords[1]) = <<"S", "U", "B", "S", "C", "R", "I", "B", "E">>

\* the arrays [subscribe, ci, i] for i = 1 .. n, one after the other
SubscribeAnswer(cs) ==
    Concat([i \in 1..Len(cs) |->
              <<"*", "3", CR, LF, "$", "9", CR, LF,
                "s", "u", "b", "s", "c", "r", "i", "b", "e", CR, LF>>
                  \o SerializeBulkString(cs[i]) \o <<":">> \o FormatInt(i) \o CRLF])

StopFrames == {FramePing, FrameSet, FrameGet}

StopRead(c, frame) == ReadWithin(c, frame, MaxFrames)

StopNext ==
    \/ \E c \in Conns : Accept(c)
    \/ \E c \in Conns : Register(c)
    \/ \E c \in Conns, frame \in StopFrames : StopRead(c, frame)
    \/ \E c \in Conns : Receive(c)
    \/ \E c \in Conns : Drop(c)
    \/ Handle
    \/ Cancel
    \/ CaseDone
    \/ LoopAgain

StopSpec == ServerInit /\ [][StopNext]_vars

\* C14: after done is closed the consumer finishes the command it is
\* executing, if any, and then exits: it dequeues no further message and,
\* once it has taken the case of done, it is never in its select again.
C14_ConsumerExitsAfterDone ==
    [][/\ (done /\ msg = Nil) => msg' = Nil
       /\ consumer = "break" => consumer' # "select"]_vars

====
